---- MODULE Spec2Model ----
(* Model of the note indexing and retrieval pipeline of the voice-notes   *)
(* bot: RAGService (add_note, search, delete_note, clear_all) and         *)
(* SyncService.sync_all_notes of src/src/rag_service.py, run as           *)
(* coroutines of one asyncio event loop.  A step of the model is the code *)
(* a coroutine runs between two suspension points (await).                *)
EXTENDS Integers, Sequences, FiniteSets, Bags, TLC

(***************************************************************************)
(* Bounds of the model                                                     *)
(***************************************************************************)
\* number of notes the external store lists
MaxListed == 2
\* longest run of blanks put around a text or a query
MaxPad == 1
\* number of meeting notes the save endpoint creates
MaxSaved == 1
\* longest list of intermediate summaries a save request carries
MaxChunks == 2

\* the coroutines that call the services, both on the one event loop: a
\* handler of the bot (voice note, /ask, /sync, maintenance) and a handler
\* of the web endpoint, which only indexes the note it saved
Tasks == {"bot", "web"}
BotTasks == {"bot"}

(***************************************************************************)
(* Strings: sequences of one-character strings                             *)
(***************************************************************************)
Rep(c, n) == [i \in 1..n |-> c]

IsSpace(c) == c \in {" ", "\n", "\t"}

RECURSIVE LStrip(_)
LStrip(s) == IF s # <<>> /\ IsSpace(Head(s)) THEN LStrip(Tail(s)) ELSE s

RECURSIVE RStrip(_)
RStrip(s) ==
    IF s # <<>> /\ IsSpace(s[Len(s)]) THEN RStrip(SubSeq(s, 1, Len(s) - 1)) ELSE s

\* str.strip()
Strip(s) == RStrip(LStrip(s))

Padded(l, s, r) == Rep(" ", l) \o s \o Rep(" ", r)

(***************************************************************************)
(* Program constants                                                       *)
(***************************************************************************)
MinTextLen == 20
MinQueryLen == 3
DefaultNResults == 5
SyncMinTextLen == 20

MinChunkLen == 50
MinTranscriptLen == 10

ContextDateLen == 10
ContextTextLen == 1500

\* the digits search rounds a similarity to
RoundDigits == 3

\* similarities and distances are fixed-point numbers, Scale units per 1.0:
\* five units per last rounded digit, so that rounding never meets a tie
Scale == 5 * (10 ^ RoundDigits)
UnitsPerMilli == Scale \div (10 ^ RoundDigits)
DefaultMinSimilarity == (3 * Scale) \div 10
AskMinSimilarity == (25 * Scale) \div 100

(***************************************************************************)
(* Metadata values: None, a string or an integer                           *)
(***************************************************************************)
NoneV == [kind |-> "none", s |-> <<>>, n |-> 0]
Str(x) == [kind |-> "str", s |-> x, n |-> 0]
IntV(i) == [kind |-> "int", s |-> <<>>, n |-> i]

EmptyDict == [k \in {} |-> NoneV]
\* the metadata argument: a dict, or None when the caller passes none
NoMeta == [given |-> FALSE, dict |-> EmptyDict]
Dict(d) == [given |-> TRUE, dict |-> d]


(***************************************************************************)
(* Inputs: note ids, note texts, caller metadata, queries                  *)
(***************************************************************************)
NoteIds == {"n1", "n2"}

BodyA == Rep("a", MinTextLen)
BodyB == Rep("b", MinTextLen)
ShortBody == Rep("c", MinTextLen - 1)

\* texts add_note accepts: one of exactly the minimum length, one padded
TextA == BodyA
TextB == Padded(MaxPad, BodyB, MaxPad)
AcceptedTexts == {TextA, TextB}
\* texts add_note rejects: empty, blank, and short with or without padding
RejectedTexts ==
    {<<>>, Rep(" ", MinTextLen + MaxPad)} \cup
    {Padded(p, ShortBody, p) : p \in 0..MaxPad}
NoteTexts == AcceptedTexts \cup RejectedTexts

MetaT == Dict(("title" :> Str(<<"B">>)) @@ ("created" :> NoneV))
CallerMetas == {NoMeta, MetaT}

\* values datetime.now().isoformat() may yield
Times == {<<"T", "1">>}

QueryX == <<"b", "u", "d">>
QueryY == Padded(MaxPad, <<"v", "a", "c">>, 0)
ValidQueries == {QueryX, QueryY}
ShortQuery == <<"h", "i">>
RejectedQueries ==
    {<<>>, Rep(" ", MinQueryLen + MaxPad)} \cup
    {Padded(p, ShortQuery, p) : p \in 0..MaxPad}
Queries == ValidQueries \cup RejectedQueries

(***************************************************************************)
(* The embedding model and the cosine space                                *)
(***************************************************************************)
\* get_embedder().encode(text): the vector is a function of the text alone
Encode(text) == [model |-> "multilingual-e5-small", of |-> text]

\* SyncService.sync_all_notes, "Combine name and body for indexing"
FullText(name, body) == IF body # <<>> THEN name \o <<"\n", "\n">> \o body ELSE name

\* the notes of the external store, in the order the listing returns them:
\* one that is indexed, one below the minimum, one that is blank but for
\* its name
Catalogue ==
    << [id |-> "n1", name |-> Rep("t", 5), body |-> Rep("x", SyncMinTextLen - 7)],
       [id |-> "n2", name |-> Rep("s", 5), body |-> <<>>],
       [id |-> "n3", name |-> Rep("u", 4), body |-> Rep(" ", SyncMinTextLen)] >>
StoreTexts == {FullText(Catalogue[i].name, Catalogue[i].body) : i \in 1..Len(Catalogue)}

\* the cosine distances the index reports, from 0 (same direction) to 2
DocTexts == AcceptedTexts \cup {x \in StoreTexts : Len(Strip(x)) >= MinTextLen}
DistancePairs == ValidQueries \X DocTexts

\* round(similarity, 3) on a fixed-point value: to the nearest multiple of
\* 0.001
Round3(x) ==
    LET lo == (x \div UnitsPerMilli) * UnitsPerMilli
    IN  IF 2 * (x - lo) < UnitsPerMilli THEN lo ELSE lo + UnitsPerMilli

Min(a, b) == IF a <= b THEN a ELSE b

(***************************************************************************)
(* The ChromaDB collection "notes": a bag of entries                       *)
(***************************************************************************)
\* an entry filed under one fixed id, whatever id it is given
EntryUnderOneId(id, doc, meta, emb) ==
    [id |-> "n1", document |-> doc, metadata |-> meta, embedding |-> emb]

Entry(id, doc, meta, emb) ==
    [id |-> id, document |-> doc, metadata |-> meta, embedding |-> emb]

EntriesOf(entries, id) == {e \in BagToSet(entries) : e.id = id}

\* collection.count()
CollectionCount(entries) == BagCardinality(entries)

\* a delete that empties the collection
CollectionDeleteAll(entries, id) == EmptyBag

\* collection.delete(ids=[id]): removes every entry of the id, no-op if absent
CollectionDelete(entries, id) ==
    LET keep == {e \in BagToSet(entries) : e.id # id}
    IN  [e \in keep |-> entries[e]]

\* collection.add that stores a second entry under an id it already holds
CollectionAddAlways(entries, id, doc, meta, emb) ==
    entries (+) SetToBag({Entry(id, doc, meta, emb)})

\* collection.add(ids, documents, metadatas, embeddings): an id the
\* collection already holds is ignored, a fresh id is inserted
CollectionAdd(entries, id, doc, meta, emb) ==
    IF EntriesOf(entries, id) # {}
    THEN entries
    ELSE entries (+) SetToBag({Entry(id, doc, meta, emb)})

(***************************************************************************)
(* Requests of the browser extension, responses, calls of the summarizer   *)
(***************************************************************************)
\* the JSON body of a POST to /api/extension/summarize-chunk or .../save:
\* text is the chunk text or the transcript, chunks the intermediate
\* summaries
Request(token, text, chunkNumber, chunks) ==
    [token |-> token, text |-> text, chunkNumber |-> chunkNumber,
     chunks |-> chunks, event |-> ""]
NoRequest == Request("", <<>>, 0, <<>>)

\* an element of intermediateSummaries: a dict with the key summary and,
\* when numbered, the key chunkNumber
Chunk(numbered, chunkNumber, summary) ==
    [numbered |-> numbered, chunkNumber |-> chunkNumber, summary |-> summary]

\* the settings _web_get_config returns, as pairs of key and value
ExtensionConfig ==
    {<<"anytypeApiUrl", "url-a">>, <<"anytypeBearerToken", "bearer">>,
     <<"anytypeSpaceId", "space">>, <<"deepseekApiKey", "key">>,
     <<"deepseekApiUrl", "url-d">>}
NoConfig == {}

\* web.json_response(..., status)
Response(status, summary, objectId) ==
    [status |-> status, summary |-> summary, objectId |-> objectId,
     config |-> NoConfig]
NoResponse == Response(0, <<>>, "")

\* a call of a method of the summarizer with its text and prompt parts
LlmCall(method, text, parts) == [method |-> method, text |-> text, parts |-> parts]

\* the extension tokens loaded at start-up, each with its Telegram user id
ExtensionTokens == [tk \in {"tok-1"} |-> 1001]

\* a check that refuses only the user id 0
TokenInvalidZeroOnly(token) ==
    token \in DOMAIN ExtensionTokens /\ ExtensionTokens[token] = 0

\* user_id = self.extension_tokens.get(token); if not user_id
TokenInvalid(token) ==
    token \notin DOMAIN ExtensionTokens \/ ExtensionTokens[token] = 0

(***************************************************************************)
(* State                                                                   *)
(***************************************************************************)
VARIABLES
    db,          \* the persistent store: does "notes" exist, and its entries
    collection,  \* RAGService._collection: TRUE once the handle is cached
    embedder,    \* the global _embedder: TRUE once the model is loaded
    dist,        \* cosine distance of every (query, document) pair
    store,       \* the notes the external store lists, in listing order
    tasks        \* the callers of the services: position and locals

vars == <<db, collection, embedder, dist, store, tasks>>

Idle ==
    [op |-> "none", pc |-> "idle",
     note_id |-> "", text |-> <<>>, metadata |-> NoMeta,
     query |-> <<>>, n_results |-> 0, min_similarity |-> 0,
     ok |-> FALSE, notes |-> <<>>,
     results |-> <<>>,
     i |-> 0, stats |-> [synced |-> 0, skipped |-> 0, errors |-> 0],
     usedEmbedder |-> FALSE, usedIndex |-> FALSE, queried |-> FALSE,
     raised |-> {},
     request |-> NoRequest, llm |-> <<>>, summary |-> <<>>,
     title |-> <<>>, body |-> <<>>, created |-> "",
     sent |-> <<>>, response |-> NoResponse,
     thread |-> "none"]

Raise(cond, step) == IF cond THEN {step} ELSE {}

(***************************************************************************)
(* RAGService helpers                                                      *)
(***************************************************************************)
\* get_embedder() followed by .encode(text), run in the executor: the model
\* is loaded on first use; the load and the encoding may each raise
RunEmbedder(emb, loadOk, encOk) ==
    LET loaded == emb \/ loadOk
    IN  [ok |-> loaded /\ encOk, embedder |-> loaded]

\* a handle that is opened on a collection made anew
GetCollectionMadeAnew(coll, d, openOk) ==
    IF openOk THEN [ok |-> TRUE, collection |-> TRUE,
                    db |-> [exists |-> TRUE, entries |-> EmptyBag]]
    ELSE [ok |-> FALSE, collection |-> FALSE, db |-> d]

\* RAGService._get_collection: opens (and creates) the collection once
GetCollection(coll, d, openOk) ==
    IF coll THEN [ok |-> TRUE, collection |-> TRUE, db |-> d]
    ELSE IF openOk
         THEN [ok |-> TRUE, collection |-> TRUE,
               db |-> [exists |-> TRUE, entries |-> d.entries]]
         ELSE [ok |-> FALSE, collection |-> FALSE, db |-> d]

\* the guard on the text without the strip
TextRejectedUnstripped(text) == text = <<>> \/ Len(text) < MinTextLen

\* add_note, the guard on the text
TextRejected(text) == text = <<>> \/ Len(Strip(text)) < MinTextLen

\* the metadata with the stamps, the None values left in
PrepareMetaKeepNone(metadata, text, now) ==
    LET meta0 == IF metadata.given /\ DOMAIN metadata.dict # {}
                 THEN metadata.dict ELSE EmptyDict
    IN  ("indexed_at" :> Str(now)) @@ ("text_length" :> IntV(Len(text))) @@ meta0

\* add_note, "Prepare metadata"
PrepareMeta(metadata, text, now) ==
    LET meta0 == IF metadata.given /\ DOMAIN metadata.dict # {}
                 THEN metadata.dict ELSE EmptyDict
        stamp == ("indexed_at" :> Str(now)) @@ ("text_length" :> IntV(Len(text)))
        meta1 == stamp @@ meta0
    IN  [k \in {x \in DOMAIN meta1 : meta1[x] # NoneV} |-> meta1[k]]

\* the upsert without its delete step
UpsertNoDelete(entries, id, doc, meta, emb, delOk, addOk) ==
    IF addOk THEN CollectionAdd(entries, id, doc, meta, emb) ELSE entries

\* add_note, "Upsert (add or update)": delete, whose exception is swallowed,
\* then add
Upsert(entries, id, doc, meta, emb, delOk, addOk) ==
    LET afterDelete == IF delOk THEN CollectionDelete(entries, id) ELSE entries
    IN  IF addOk THEN CollectionAdd(afterDelete, id, doc, meta, emb)
        ELSE afterDelete

\* an add_note that returns false for an id the index already holds
AddNoteStoreSkipIndexed(d, coll, id, text, metadata, now, openOk, delOk, addOk) ==
    LET g == GetCollection(coll, d, openOk)
    IN  IF ~g.ok
        THEN [db |-> d, collection |-> coll, ok |-> FALSE, raised |-> {"open"}]
        ELSE IF EntriesOf(g.db.entries, id) # {}
        THEN [db |-> g.db, collection |-> g.collection, ok |-> FALSE, raised |-> {}]
        ELSE [db |-> [g.db EXCEPT !.entries =
                        Upsert(g.db.entries, id, text,
                               PrepareMeta(metadata, text, now),
                               Encode(text), delOk, addOk)],
              collection |-> g.collection,
              ok |-> addOk,
              raised |-> Raise(~delOk, "delete") \cup Raise(~addOk, "add")]

\* add_note after the embedding is there: the rest of the try block
AddNoteStore(d, coll, id, text, metadata, now, openOk, delOk, addOk) ==
    LET g == GetCollection(coll, d, openOk)
    IN  IF ~g.ok
        THEN [db |-> d, collection |-> coll, ok |-> FALSE, raised |-> {"open"}]
        ELSE [db |-> [g.db EXCEPT !.entries =
                        Upsert(g.db.entries, id, text,
                               PrepareMeta(metadata, text, now),
                               Encode(text), delOk, addOk)],
              collection |-> g.collection,
              ok |-> addOk,
              raised |-> Raise(~delOk, "delete") \cup Raise(~addOk, "add")]

(***************************************************************************)
(* RAGService.add_note                                                     *)
(***************************************************************************)
\* the call up to the await of the executor, or the rejection of the text
AddNoteCall(t, id, text, metadata) ==
    /\ tasks[t].pc = "idle"
    /\ tasks' = [tasks EXCEPT ![t] =
          [Idle EXCEPT !.op = "add_note", !.note_id = id, !.text = text,
                       !.metadata = metadata,
                       !.pc = IF TextRejected(text) THEN "done" ELSE "embedding"]]
    /\ UNCHANGED <<db, collection, embedder, dist, store>>

\* the executor is done: the embedding, then the index write
AddNoteResume(t) ==
    /\ tasks[t].pc = "embedding" /\ tasks[t].op = "add_note"
    /\ \E loadOk, encOk, openOk, delOk, addOk \in BOOLEAN : \E now \in Times :
          LET e == RunEmbedder(embedder, loadOk, encOk)
              w == AddNoteStore(db, collection, tasks[t].note_id, tasks[t].text,
                                tasks[t].metadata, now, openOk, delOk, addOk)
          IN  /\ embedder' = e.embedder
              /\ IF e.ok
                 THEN /\ db' = w.db
                      /\ collection' = w.collection
                      /\ tasks' = [tasks EXCEPT ![t].pc = "done", ![t].ok = w.ok,
                                     ![t].usedEmbedder = TRUE, ![t].usedIndex = TRUE,
                                     ![t].raised = w.raised]
                 ELSE /\ UNCHANGED <<db, collection>>
                      /\ tasks' = [tasks EXCEPT ![t].pc = "done", ![t].ok = FALSE,
                                     ![t].usedEmbedder = TRUE,
                                     ![t].raised = {"embed"}]
    /\ UNCHANGED <<dist, store>>

(***************************************************************************)
(* RAGService.delete_note and RAGService.clear_all                         *)
(***************************************************************************)
DeleteNote(t, id) ==
    /\ tasks[t].pc = "idle"
    /\ \E openOk, delOk \in BOOLEAN :
          LET g == GetCollection(collection, db, openOk)
          IN  IF g.ok /\ delOk
              THEN /\ db' = [g.db EXCEPT !.entries = CollectionDelete(@, id)]
                   /\ collection' = g.collection
                   /\ tasks' = [tasks EXCEPT ![t] =
                        [Idle EXCEPT !.op = "delete_note", !.note_id = id,
                                     !.pc = "done", !.ok = TRUE, !.usedIndex = TRUE]]
              ELSE /\ db' = g.db
                   /\ collection' = g.collection
                   /\ tasks' = [tasks EXCEPT ![t] =
                        [Idle EXCEPT !.op = "delete_note", !.note_id = id,
                                     !.pc = "done", !.ok = FALSE, !.usedIndex = TRUE,
                                     !.raised = IF g.ok THEN {"delete"} ELSE {"open"}]]
    /\ UNCHANGED <<embedder, dist, store>>

\* client.delete_collection("notes") raises when the collection is missing
ClearAll(t) ==
    /\ tasks[t].pc = "idle"
    /\ \E dropOk \in BOOLEAN :
          IF db.exists /\ dropOk
          THEN /\ db' = [exists |-> FALSE, entries |-> EmptyBag]
               /\ collection' = FALSE
               /\ tasks' = [tasks EXCEPT ![t] =
                    [Idle EXCEPT !.op = "clear_all", !.pc = "done", !.ok = TRUE,
                                 !.usedIndex = TRUE]]
          ELSE /\ UNCHANGED <<db, collection>>
               /\ tasks' = [tasks EXCEPT ![t] =
                    [Idle EXCEPT !.op = "clear_all", !.pc = "done", !.ok = FALSE,
                                 !.usedIndex = TRUE, !.raised = {"drop"}]]
    /\ UNCHANGED <<embedder, dist, store>>

\* the caller takes the result
Return(t) ==
    /\ tasks[t].pc = "done"
    /\ tasks' = [tasks EXCEPT ![t] = Idle]
    /\ UNCHANGED <<db, collection, embedder, dist, store>>

(***************************************************************************)
(* RAGService.search                                                       *)
(***************************************************************************)
\* the guard on the query without the strip
QueryRejectedUnstripped(query) == query = <<>> \/ Len(query) < MinQueryLen

\* search, the guard on the query
QueryRejected(query) == query = <<>> \/ Len(Strip(query)) < MinQueryLen

\* search without the guard on the empty collection
CorpusEmptyUnchecked(entries) == FALSE

\* search, the guard on the empty collection
CorpusEmpty(entries) == CollectionCount(entries) = 0

\* the n_results passed to collection.query
QueryLimit(n_results, entries) == Min(n_results, CollectionCount(entries))

Hit(e, query) ==
    [id |-> e.id, document |-> e.document, metadata |-> e.metadata,
     distance |-> dist[<<query, e.document>>]]

\* collection.query(query_embeddings, n_results, include): the n nearest
\* entries, closest first; entries at the same distance come in any order
QueryResults(entries, query, n) ==
    LET hits == {Hit(e, query) : e \in BagToSet(entries)}
        len == Min(n, Cardinality(hits))
    IN  {r \in [1..len -> hits] :
            /\ \A i, j \in 1..len : i < j =>
                  r[i] # r[j] /\ r[i].distance <= r[j].distance
            /\ \A h \in hits : (\A i \in 1..len : r[i] # h) =>
                  \A i \in 1..len : r[i].distance <= h.distance}

\* "ChromaDB returns distance, convert to similarity"
Similarity(distance) == Scale - distance

\* the test that skips a result, with the comparison turned round
BelowThresholdInverted(similarity, min_similarity) == similarity > min_similarity

\* the test that skips a result
BelowThreshold(similarity, min_similarity) == similarity < min_similarity

\* the note put at the front of the list
PrependNote(notes, r) ==
    <<[id |-> r.id, text |-> r.document, metadata |-> r.metadata,
       similarity |-> Round3(Similarity(r.distance))]>> \o notes

\* notes.append({...})
AppendNote(notes, r) ==
    Append(notes, [id |-> r.id, text |-> r.document, metadata |-> r.metadata,
                   similarity |-> Round3(Similarity(r.distance))])

\* search, "Process results": the loop over results['documents'][0]
RECURSIVE ProcessResults(_, _, _)
ProcessResults(results, min_similarity, notes) ==
    IF results = <<>> THEN notes
    ELSE ProcessResults(Tail(results), min_similarity,
            IF BelowThreshold(Similarity(Head(results).distance), min_similarity)
            THEN notes
            ELSE AppendNote(notes, Head(results)))

\* the call up to the await of the executor, or the rejection of the query
SearchCall(t, query, n_results, min_similarity) ==
    /\ tasks[t].pc = "idle"
    /\ tasks' = [tasks EXCEPT ![t] =
          [Idle EXCEPT !.op = "search", !.query = query,
                       !.n_results = n_results,
                       !.min_similarity = min_similarity,
                       !.pc = IF QueryRejected(query) THEN "done" ELSE "embedding"]]
    /\ UNCHANGED <<db, collection, embedder, dist, store>>

\* the executor is done: the query embedding, then the index query, which
\* raises when asked for fewer than one result
SearchResume(t) ==
    /\ tasks[t].pc = "embedding" /\ tasks[t].op \in {"search", "ask"}
    /\ \E loadOk, encOk, openOk, countOk, queryOk \in BOOLEAN :
          LET e == RunEmbedder(embedder, loadOk, encOk)
              g == GetCollection(collection, db, openOk)
              n == QueryLimit(tasks[t].n_results, g.db.entries)
              Done(usedIx, qd, res, notes, raised) ==
                  tasks' = [tasks EXCEPT
                              ![t].pc = IF tasks[t].op = "ask" THEN "searched"
                                        ELSE "done",
                              ![t].notes = notes,
                              ![t].results = res,
                              ![t].usedEmbedder = TRUE, ![t].usedIndex = usedIx,
                              ![t].queried = qd, ![t].raised = raised]
          IN  /\ embedder' = e.embedder
              /\ IF ~e.ok
                 THEN /\ UNCHANGED <<db, collection>>
                      /\ Done(FALSE, FALSE, <<>>, <<>>, {"embed"})
                 ELSE /\ db' = g.db
                      /\ collection' = g.collection
                      /\ IF ~g.ok THEN Done(TRUE, FALSE, <<>>, <<>>, {"open"})
                         ELSE IF ~countOk THEN Done(TRUE, FALSE, <<>>, <<>>, {"count"})
                         ELSE IF CorpusEmpty(g.db.entries)
                              THEN Done(TRUE, FALSE, <<>>, <<>>, {})
                         ELSE IF ~queryOk \/ n <= 0
                              THEN Done(TRUE, TRUE, <<>>, <<>>, {"query"})
                         ELSE \E res \in QueryResults(g.db.entries, tasks[t].query, n) :
                                 Done(TRUE, TRUE, res,
                                      ProcessResults(res, tasks[t].min_similarity, <<>>),
                                      {})
    /\ UNCHANGED <<dist, store>>

(***************************************************************************)
(* SyncService.sync_all_notes                                              *)
(***************************************************************************)
\* the metadata without the id of the note
SyncMetaUntagged(obj) ==
    Dict(("title" :> Str(obj.name)) @@ ("source" :> Str(<<"anytype">>)) @@
         ("created" :> Str(<<>>)))

\* the metadata sync_all_notes passes to add_note
SyncMeta(obj) ==
    Dict(("title" :> Str(obj.name)) @@ ("source" :> Str(<<"anytype">>)) @@
         ("anytype_id" :> Str(<<obj.id>>)) @@ ("created" :> Str(<<>>)))

\* a counter that is left as it is
BumpNothing(stats, counter) == stats

Bump(stats, counter) == [stats EXCEPT ![counter] = @ + 1]

\* the for loop moves on to the object after objects[i], or the run returns
Advance(task, stats) ==
    IF task.i < Len(store)
    THEN [task EXCEPT !.pc = "fetching", !.i = task.i + 1, !.stats = stats,
                      !.note_id = store[task.i + 1].id,
                      !.text = <<>>, !.metadata = NoMeta]
    ELSE [task EXCEPT !.pc = "done", !.stats = stats, !.ok = TRUE]

\* the call up to the await of the listing request
SyncCall(t) ==
    /\ tasks[t].pc = "idle"
    /\ tasks' = [tasks EXCEPT ![t] = [Idle EXCEPT !.op = "sync", !.pc = "listing"]]
    /\ UNCHANGED <<db, collection, embedder, dist, store>>

\* the listing request is answered, or raises into the outer except
SyncListed(t) ==
    /\ tasks[t].pc = "listing"
    /\ \E listOk \in BOOLEAN :
          tasks' = [tasks EXCEPT ![t] =
             IF listOk THEN Advance(tasks[t], tasks[t].stats)
             ELSE [tasks[t] EXCEPT !.pc = "done",
                                   !.stats = Bump(@, "errors"),
                                   !.raised = {"list"}]]
    /\ UNCHANGED <<db, collection, embedder, dist, store>>

\* get_object is answered, or raises into the inner except; the text is
\* built and handed to add_note up to its await
SyncFetched(t) ==
    /\ tasks[t].pc = "fetching"
    /\ \E fetchOk \in BOOLEAN :
          LET obj == store[tasks[t].i]
              full_text == FullText(obj.name, obj.body)
          IN  tasks' = [tasks EXCEPT ![t] =
                 IF ~fetchOk
                 THEN [Advance(tasks[t], Bump(tasks[t].stats, "errors"))
                          EXCEPT !.raised = @ \cup {"fetch"}]
                 ELSE IF Len(full_text) < SyncMinTextLen
                      THEN Advance(tasks[t], Bump(tasks[t].stats, "skipped"))
                 ELSE IF TextRejected(full_text)
                      THEN Advance(tasks[t], Bump(tasks[t].stats, "skipped"))
                 ELSE [tasks[t] EXCEPT !.pc = "embedding", !.text = full_text,
                                       !.metadata = SyncMeta(obj)]]
    /\ UNCHANGED <<db, collection, embedder, dist, store>>

\* add_note resumes inside the sync run and returns its success
SyncEmbedded(t) ==
    /\ tasks[t].pc = "embedding" /\ tasks[t].op = "sync"
    /\ \E loadOk, encOk, openOk, delOk, addOk \in BOOLEAN : \E now \in Times :
          LET e == RunEmbedder(embedder, loadOk, encOk)
              w == AddNoteStore(db, collection, tasks[t].note_id, tasks[t].text,
                                tasks[t].metadata, now, openOk, delOk, addOk)
              success == e.ok /\ w.ok
          IN  /\ embedder' = e.embedder
              /\ db' = IF e.ok THEN w.db ELSE db
              /\ collection' = IF e.ok THEN w.collection ELSE collection
              /\ tasks' = [tasks EXCEPT ![t] =
                    [Advance(tasks[t],
                             Bump(tasks[t].stats,
                                  IF success THEN "synced" ELSE "skipped"))
                        EXCEPT !.raised =
                           @ \cup (IF e.ok THEN w.raised ELSE {"embed"})]]
    /\ UNCHANGED <<dist, store>>

(***************************************************************************)
(* DeepSeekSummarizer                                                      *)
(***************************************************************************)
\* the methods the class defines
SummarizerMethods == {"summarize", "summarize_chunk", "combine_summaries", "close"}

\* what a completion may return: the content of the first choice, or ""
Summaries == {<<>>, <<"S">>}

\* combine_summaries, the number in the label of the i-th element:
\* s.get('chunkNumber', i+1), i counting from 0
PartLabel(s, i) == IF s.numbered THEN s.chunkNumber ELSE i

\* combine_summaries, "Format intermediate summaries": the parts
\* "[Part n]: summary", joined by blank lines in the order of the list
SummariesText(intermediate_summaries) ==
    [i \in 1..Len(intermediate_summaries) |->
        [label |-> PartLabel(intermediate_summaries[i], i),
         summary |-> intermediate_summaries[i].summary]]

(***************************************************************************)
(* The web endpoints of the extension: summarize-chunk and save            *)
(***************************************************************************)
\* str(n) of a natural number
RECURSIVE Digits(_)
Digits(n) ==
    IF n < 10 THEN <<ToString(n)>> ELSE Digits(n \div 10) \o <<ToString(n % 10)>>

\* the chunk endpoint without its guard on the length
ChunkTooShortUnchecked(text) == FALSE

\* _web_summarize_chunk, the guard on the text
ChunkTooShort(text) == Len(text) < MinChunkLen

\* _web_save_transcript, the guard on the transcript
\* the save endpoint without its guard on the transcript
TranscriptTooShortUnchecked(transcript) == FALSE

\* _web_save_transcript, "if len(transcript) < 10"
TranscriptTooShort(transcript) == Len(transcript) < MinTranscriptLen

\* the save endpoint taking the chunk summaries when the list is empty
HasChunksInverted(chunks) == chunks = <<>>

\* _web_save_transcript, "if intermediate_summaries and len(...) > 0"
HasChunks(chunks) == chunks # <<>> /\ Len(chunks) > 0

\* the request is handled up to the await of summarize_chunk, or refused
SummarizeChunkCall(t, req) ==
    /\ tasks[t].pc = "idle"
    /\ tasks' = [tasks EXCEPT ![t] =
          LET call == [Idle EXCEPT !.op = "summarize_chunk", !.request = req]
          IN  IF TokenInvalid(req.token)
              THEN [call EXCEPT !.pc = "done", !.response = Response(401, <<>>, "")]
              ELSE IF ChunkTooShort(req.text)
              THEN [call EXCEPT !.pc = "done", !.response = Response(400, <<>>, "")]
              ELSE [call EXCEPT !.pc = "summarizing",
                                !.llm = <<LlmCall("summarize_chunk", req.text, <<>>)>>]]
    /\ UNCHANGED <<db, collection, embedder, dist, store>>

\* the completion is there, or has raised into the except
SummarizeChunkDone(t) ==
    /\ tasks[t].op = "summarize_chunk" /\ tasks[t].pc = "summarizing"
    /\ \E llmOk \in BOOLEAN, summary \in Summaries :
          tasks' = [tasks EXCEPT ![t] =
             IF llmOk
             THEN [@ EXCEPT !.pc = "done", !.summary = summary,
                            !.response = Response(200, summary, "")]
             ELSE [@ EXCEPT !.pc = "done", !.raised = {"llm"},
                            !.response = Response(500, <<>>, "")]]
    /\ UNCHANGED <<db, collection, embedder, dist, store>>

\* the head of the title of a meeting note; "^" stands for the camera emoji
NoteTitleHead ==
    <<"^", " ", "G", "o", "o", "g", "l", "e", " ", "M", "e", "e", "t", " ",
      "R", "e", "c", "o", "r", "d", "i", "n", "g", " ", "-", " ">>

BodyHead ==
    <<"#", "#", " ", "S", "u", "m", "m", "a", "r", "y", "\n", "\n">>

Rule ==
    <<"\n", "\n", "-", "-", "-", "\n", "\n">>

TimelineHead ==
    <<"#", "#", " ", "M", "e", "e", "t", "i", "n", "g", " ", "T", "i", "m",
      "e", "l", "i", "n", "e", "\n", "\n">>

PartHead ==
    <<"#", "#", "#", " ", "P", "a", "r", "t", " ">>

TimelineEnd ==
    <<"-", "-", "-", "\n", "\n">>

TranscriptHead ==
    <<"#", "#", " ", "F", "u", "l", "l", " ", "T", "r", "a", "n", "s", "c",
      "r", "i", "p", "t", "\n", "\n", ">", " ">>

DurationHead ==
    <<"\n", "\n", "-", "-", "-", "\n", "*", "D", "u", "r", "a", "t", "i",
      "o", "n", ":", " ">>

DurationTail ==
    <<" ", "m", "i", "n", "u", "t", "e", "s", "*", "\n">>

\* the title of the meeting note: the default meeting title and the date
MeetingNoteTitle(date_str) == NoteTitleHead \o date_str

\* the "Meeting Timeline" of the body: a heading and the summary per chunk
RECURSIVE Timeline(_)
Timeline(chunks) ==
    IF chunks = <<>> THEN <<>>
    ELSE PartHead
         \o (IF Head(chunks).numbered THEN Digits(Head(chunks).chunkNumber)
             ELSE <<"?">>)
         \o <<"\n">> \o Head(chunks).summary \o <<"\n", "\n">>
         \o Timeline(Tail(chunks))

\* the body of the meeting note: summary, timeline when there is more than
\* one chunk, transcript, duration
MeetingNoteBody(summary, chunks, transcript, duration) ==
    BodyHead \o summary \o Rule
    \o (IF HasChunks(chunks) /\ Len(chunks) > 1
        THEN TimelineHead \o Timeline(chunks) \o TimelineEnd ELSE <<>>)
    \o TranscriptHead \o transcript \o DurationHead \o Digits(duration)
    \o DurationTail

\* the id the external store gives the object it creates
NewObjectId(objects) == "m" \o ToString(Len(objects) + 1)

\* _index_note, the text handed to add_note
IndexText(title, body) == IF body # <<>> THEN title \o <<"\n", "\n">> \o body ELSE title

\* _index_note, the metadata handed to add_note
IndexMeta(title, note_id, now) ==
    Dict(("title" :> Str(title)) @@ ("source" :> Str(<<"voice_note">>)) @@
         ("anytype_id" :> Str(<<note_id>>)) @@ ("created" :> Str(now)))

\* an _index_note that files every note under one key
IndexCallUnderOneKey(task, note_id, title, body, now) ==
    [task EXCEPT !.note_id = "note",
                 !.text = IndexText(title, body),
                 !.metadata = IndexMeta(title, note_id, now),
                 !.pc = IF TextRejected(IndexText(title, body))
                        THEN "notifying" ELSE "embedding"]

\* _index_note calls add_note, which runs up to its await or returns false
\* at its guard
IndexCall(task, note_id, title, body, now) ==
    [task EXCEPT !.note_id = note_id,
                 !.text = IndexText(title, body),
                 !.metadata = IndexMeta(title, note_id, now),
                 !.pc = IF TextRejected(IndexText(title, body))
                        THEN "notifying" ELSE "embedding"]

\* a message of the bot to the Telegram user
Message(user_id, kind) == [to |-> user_id, kind |-> kind]

\* _web_get_config: the settings for a known token, 401 otherwise
GetConfigCall(t, token) ==
    /\ tasks[t].pc = "idle"
    /\ tasks' = [tasks EXCEPT ![t] =
          LET call == [Idle EXCEPT !.op = "get_config", !.pc = "done",
                                   !.request = Request(token, <<>>, 0, <<>>)]
          IN  IF TokenInvalid(token)
              THEN [call EXCEPT !.response = Response(401, <<>>, "")]
              ELSE [call EXCEPT !.response =
                      [Response(200, <<>>, "") EXCEPT !.config = ExtensionConfig]]]
    /\ UNCHANGED <<db, collection, embedder, dist, store>>

\* the events _web_log_event tells the user of
NotifiedEvents ==
    {"recording_started", "recording_stopped", "intermediate_summary",
     "saved", "error"}

\* the body of a request to the event endpoint
EventRequest(token, event) ==
    [Request(token, <<>>, 0, <<>>) EXCEPT !.event = event]

\* _web_log_event up to the await of send_message: refused for its token,
\* answered at once for an event it does not know
LogEventCall(t, req) ==
    /\ tasks[t].pc = "idle"
    /\ tasks' = [tasks EXCEPT ![t] =
          LET call == [Idle EXCEPT !.op = "log_event", !.request = req]
          IN  IF TokenInvalid(req.token)
              THEN [call EXCEPT !.pc = "done", !.response = Response(401, <<>>, "")]
              ELSE IF req.event \in NotifiedEvents
              THEN [call EXCEPT !.pc = "notifying"]
              ELSE [call EXCEPT !.pc = "done", !.response = Response(200, <<>>, "")]]
    /\ UNCHANGED <<db, collection, embedder, dist, store>>

\* the user is told of the event, or send_message has raised into the
\* except
LogEventSent(t) ==
    /\ tasks[t].op = "log_event" /\ tasks[t].pc = "notifying"
    /\ \E sendOk \in BOOLEAN :
          tasks' = [tasks EXCEPT ![t] =
             IF sendOk
             THEN [@ EXCEPT !.pc = "done",
                      !.sent = Append(@, Message(ExtensionTokens[tasks[t].request.token],
                                                 tasks[t].request.event)),
                      !.response = Response(200, <<>>, "")]
             ELSE [@ EXCEPT !.pc = "done", !.raised = {"send"},
                            !.response = Response(500, <<>>, "")]]
    /\ UNCHANGED <<db, collection, embedder, dist, store>>

\* the request is handled up to its first await: refused for its token, on
\* the way to warn the user of a short transcript, or waiting for the one
\* summary it asked for
SaveCall(t, req) ==
    /\ tasks[t].pc = "idle"
    /\ Len(store) < MaxListed + MaxSaved
    /\ tasks' = [tasks EXCEPT ![t] =
          LET call == [Idle EXCEPT !.op = "save_transcript", !.request = req]
          IN  IF TokenInvalid(req.token)
              THEN [call EXCEPT !.pc = "done", !.response = Response(401, <<>>, "")]
              ELSE IF TranscriptTooShort(req.text)
              THEN [call EXCEPT !.pc = "warning"]
              ELSE IF HasChunks(req.chunks)
              THEN [call EXCEPT !.pc = "summarizing",
                      !.llm = <<LlmCall("combine_summaries", <<>>,
                                        SummariesText(req.chunks))>>]
              ELSE [call EXCEPT !.pc = "summarizing",
                      !.llm = <<LlmCall("summarize", req.text, <<>>)>>]]
    /\ UNCHANGED <<db, collection, embedder, dist, store>>

\* the warning of a short transcript is sent, or send_message has raised
SaveWarned(t) ==
    /\ tasks[t].op = "save_transcript" /\ tasks[t].pc = "warning"
    /\ \E sendOk \in BOOLEAN :
          tasks' = [tasks EXCEPT ![t] =
             IF sendOk
             THEN [@ EXCEPT !.pc = "done",
                      !.sent = Append(@, Message(ExtensionTokens[tasks[t].request.token],
                                                 "too_short")),
                      !.response = Response(400, <<>>, "")]
             ELSE [@ EXCEPT !.pc = "done", !.raised = {"send"},
                            !.response = Response(500, <<>>, "")]]
    /\ UNCHANGED <<db, collection, embedder, dist, store>>

\* the summary is there: the title and the body are built and create_object
\* is awaited; or the completion has raised into the except
SaveSummarized(t) ==
    /\ tasks[t].op = "save_transcript" /\ tasks[t].pc = "summarizing"
    /\ \E llmOk \in BOOLEAN, summary \in Summaries, date_str \in Times :
          tasks' = [tasks EXCEPT ![t] =
             IF llmOk
             THEN [@ EXCEPT !.pc = "creating", !.summary = summary,
                      !.title = MeetingNoteTitle(date_str),
                      !.body = MeetingNoteBody(summary, tasks[t].request.chunks,
                                               tasks[t].request.text, 0)]
             ELSE [@ EXCEPT !.pc = "done", !.raised = {"llm"},
                            !.response = Response(500, <<>>, "")]]
    /\ UNCHANGED <<db, collection, embedder, dist, store>>

\* the external store has created the object, and _index_note calls
\* add_note up to its await; or the client has raised into the except
SaveCreated(t) ==
    /\ tasks[t].op = "save_transcript" /\ tasks[t].pc = "creating"
    /\ \E createOk \in BOOLEAN, now \in Times :
          LET id == NewObjectId(store)
          IN  IF createOk
              THEN /\ store' = Append(store, [id |-> id, name |-> tasks[t].title,
                                                body |-> tasks[t].body])
                   /\ tasks' = [tasks EXCEPT ![t] =
                         IndexCall([@ EXCEPT !.created = id], id,
                                   tasks[t].title, tasks[t].body, now)]
              ELSE /\ store' = store
                   /\ tasks' = [tasks EXCEPT ![t] =
                         [@ EXCEPT !.pc = "done", !.raised = {"create"},
                                   !.response = Response(500, <<>>, "")]]
    /\ UNCHANGED <<db, collection, embedder, dist>>

\* add_note resumes inside _index_note, which drops its result; the handler
\* goes on to the await of send_message
SaveIndexed(t) ==
    /\ tasks[t].op \in {"save_transcript", "voice_note"}
    /\ tasks[t].pc = "embedding"
    /\ \E loadOk, encOk, openOk, delOk, addOk \in BOOLEAN : \E now \in Times :
          LET e == RunEmbedder(embedder, loadOk, encOk)
              w == AddNoteStore(db, collection, tasks[t].note_id, tasks[t].text,
                                tasks[t].metadata, now, openOk, delOk, addOk)
          IN  /\ embedder' = e.embedder
              /\ db' = IF e.ok THEN w.db ELSE db
              /\ collection' = IF e.ok THEN w.collection ELSE collection
              /\ tasks' = [tasks EXCEPT ![t].pc = "notifying",
                             ![t].ok = e.ok /\ w.ok,
                             ![t].usedEmbedder = TRUE, ![t].usedIndex = e.ok,
                             ![t].raised = IF e.ok THEN w.raised ELSE {"embed"}]
    /\ UNCHANGED <<dist, store>>

\* the user is told of the saved meeting and the request is answered, or
\* send_message has raised into the except
SaveNotified(t) ==
    /\ tasks[t].op = "save_transcript" /\ tasks[t].pc = "notifying"
    /\ \E sendOk \in BOOLEAN :
          tasks' = [tasks EXCEPT ![t] =
             IF sendOk
             THEN [@ EXCEPT !.pc = "done",
                      !.sent = Append(@, Message(ExtensionTokens[tasks[t].request.token],
                                                 "saved")),
                      !.response = Response(200, tasks[t].summary, tasks[t].created)]
             ELSE [@ EXCEPT !.pc = "done", !.raised = @ \cup {"send"},
                            !.response = Response(500, <<>>, "")]]
    /\ UNCHANGED <<db, collection, embedder, dist, store>>

(***************************************************************************)
(* The /ask command of the bot                                             *)
(***************************************************************************)
AskCmd == <<"/", "a", "s", "k">>

\* str.replace('/ask', ''): every occurrence is taken out
RECURSIVE RemoveAsk(_)
RemoveAsk(s) ==
    IF s = <<>> THEN <<>>
    ELSE IF Len(s) >= Len(AskCmd) /\ SubSeq(s, 1, Len(AskCmd)) = AskCmd
    THEN RemoveAsk(SubSeq(s, Len(AskCmd) + 1, Len(s)))
    ELSE <<Head(s)>> \o RemoveAsk(Tail(s))

\* "Extract question from command"
Question(text) == Strip(RemoveAsk(text))

\* s[:n]
Take(s, n) == SubSeq(s, 1, Min(n, Len(s)))

\* a similarity formatted with ".0%": the nearest whole percent, a tie
\* going to the even one
Percent(similarity) ==
    LET unit == Scale \div 100
        q == similarity \div unit
        r == similarity - q * unit
    IN  IF 2 * r < unit THEN q
        ELSE IF 2 * r > unit THEN q + 1
        ELSE IF q % 2 = 0 THEN q ELSE q + 1

\* the title put where the metadata has none stands for the default one
DefaultTitle == <<"-">>

\* "Build context from relevant notes": one part per note, numbered from 1
BuildContext(relevant_notes) ==
    [i \in 1..Len(relevant_notes) |->
        LET note == relevant_notes[i]
        IN  [index |-> i,
             title |-> IF "title" \in DOMAIN note.metadata
                       THEN note.metadata["title"].s ELSE DefaultTitle,
             date |-> IF "created" \in DOMAIN note.metadata
                      THEN Take(note.metadata["created"].s, ContextDateLen)
                      ELSE <<>>,
             percent |-> Percent(note.similarity),
             text |-> Take(note.text, ContextTextLen)]]

\* the user the bot talks to
ChatUser == ExtensionTokens["tok-1"]

\* the handler up to its first await: the refusal of the user, the usage
\* text for an empty question, the notice of an empty base, or the status
\* message "searching"
AskCall(t, text, allowed) ==
    /\ tasks[t].pc = "idle"
    /\ \E openOk, countOk \in BOOLEAN :
          LET call == [Idle EXCEPT !.op = "ask", !.text = text]
              question == Question(text)
              g == GetCollection(collection, db, openOk)
              total_notes == IF g.ok /\ countOk
                             THEN CollectionCount(g.db.entries) ELSE 0
              Reply(kind) == [call EXCEPT !.pc = "done",
                                          !.sent = <<Message(ChatUser, kind)>>]
          IN  IF ~allowed
              THEN /\ tasks' = [tasks EXCEPT ![t] = Reply("unauthorized")]
                   /\ UNCHANGED <<db, collection>>
              ELSE IF question = <<>>
              THEN /\ tasks' = [tasks EXCEPT ![t] = Reply("usage")]
                   /\ UNCHANGED <<db, collection>>
              ELSE /\ db' = g.db
                   /\ collection' = g.collection
                   /\ tasks' = [tasks EXCEPT ![t] =
                         IF total_notes = 0
                         THEN [Reply("empty_base") EXCEPT !.usedIndex = TRUE]
                         ELSE [call EXCEPT !.pc = "searching",
                                 !.query = question,
                                 !.n_results = DefaultNResults,
                                 !.min_similarity = AskMinSimilarity,
                                 !.sent = <<Message(ChatUser, "searching")>>]]
    /\ UNCHANGED <<embedder, dist, store>>

\* the status message is out: search is called and runs up to the await of
\* the executor, or returns the empty list for a short question
AskSearch(t) ==
    /\ tasks[t].op = "ask" /\ tasks[t].pc = "searching"
    /\ tasks' = [tasks EXCEPT ![t] =
          IF QueryRejected(tasks[t].query)
          THEN [@ EXCEPT !.pc = "done",
                         !.sent = Append(@, Message(ChatUser, "no_notes"))]
          ELSE [@ EXCEPT !.pc = "embedding"]]
    /\ UNCHANGED <<db, collection, embedder, dist, store>>

\* search has returned: with no note the user is told so; with notes the
\* context is built and self.summarizer.ask(question, context) is
\* evaluated, which raises AttributeError for a method the class does not
\* define, and the except tells the user of the error
AskAnswer(t) ==
    /\ tasks[t].op = "ask" /\ tasks[t].pc = "searched"
    /\ tasks' = [tasks EXCEPT ![t] =
          IF tasks[t].notes = <<>>
          THEN [@ EXCEPT !.pc = "done",
                         !.sent = Append(@, Message(ChatUser, "no_notes"))]
          ELSE IF "ask" \notin SummarizerMethods
          THEN [@ EXCEPT !.pc = "done", !.raised = @ \cup {"ask"},
                         !.sent = Append(Append(@, Message(ChatUser, "generating")),
                                         Message(ChatUser, "error"))]
          ELSE [@ EXCEPT !.pc = "answering",
                         !.sent = Append(@, Message(ChatUser, "generating")),
                         !.llm = <<LlmCall("ask", tasks[t].query,
                                           BuildContext(tasks[t].notes))>>]]
    /\ UNCHANGED <<db, collection, embedder, dist, store>>

(***************************************************************************)
(* The handler of voice messages                                           *)
(***************************************************************************)
\* create_voice_note, the characters of the summary the title shows
TitlePreviewLen == 40

\* s.split("\n")[0]
RECURSIVE FirstLine(_)
FirstLine(s) ==
    IF s = <<>> \/ Head(s) = "\n" THEN <<>>
    ELSE <<Head(s)>> \o FirstLine(Tail(s))

\* full_text.replace(chr(10), chr(10) + '> ')
RECURSIVE QuoteLines(_)
QuoteLines(s) ==
    IF s = <<>> THEN <<>>
    ELSE (IF Head(s) = "\n" THEN <<"\n", ">", " ">> ELSE <<Head(s)>>)
         \o QuoteLines(Tail(s))

\* create_voice_note, the preview of the summary in the title
TitlePreview(summary) ==
    FirstLine(Take(summary, TitlePreviewLen))
    \o (IF Len(summary) > TitlePreviewLen THEN <<".", ".", ".">> ELSE <<>>)

\* the head of the title of a voice note; "~" stands for the microphone
\* emoji, "u" for the name of the sender
VoiceTitleHead == <<"~", " ", "[", "@", "u", "]", " ">>

VoiceTranscriptHead ==
    <<"#", "#", " ", "F", "u", "l", "l", " ", "T", "r", "a", "n", "s", "c",
      "r", "i", "p", "t", "i", "o", "n", "\n", "\n", ">", " ">>

\* create_voice_note, the title: sender, time and preview
VoiceNoteTitle(stamp, summary) ==
    VoiceTitleHead \o stamp \o <<" ", "-", " ">> \o TitlePreview(summary)

\* create_voice_note, the body: the summary and the transcription as a quote
VoiceNoteBody(summary, full_text) ==
    BodyHead \o summary \o Rule \o VoiceTranscriptHead \o QuoteLines(full_text)
    \o <<"\n">>

\* handle_voice, the body handed to _index_note
VoiceIndexBody(summary, full_text) == summary \o <<"\n", "\n">> \o full_text

\* the handler up to the await of the transcription: the refusal of the
\* user, or the status message and the download
VoiceCall(t, allowed) ==
    /\ tasks[t].pc = "idle"
    /\ Len(store) < MaxListed + MaxSaved
    /\ tasks' = [tasks EXCEPT ![t] =
          LET call == [Idle EXCEPT !.op = "voice_note"]
          IN  IF ~allowed
              THEN [call EXCEPT !.pc = "done",
                                !.sent = <<Message(ChatUser, "unauthorized")>>]
              ELSE [call EXCEPT !.pc = "transcribing",
                                !.sent = <<Message(ChatUser, "processing")>>]]
    /\ UNCHANGED <<db, collection, embedder, dist, store>>

\* the transcription is there and summarize is awaited; or it is blank, or
\* the download, the conversion or the transcription has raised
VoiceTranscribed(t, full_text) ==
    /\ tasks[t].op = "voice_note" /\ tasks[t].pc = "transcribing"
    /\ \E heardOk \in BOOLEAN :
          tasks' = [tasks EXCEPT ![t] =
             IF ~heardOk
             THEN [@ EXCEPT !.pc = "done", !.raised = {"transcribe"},
                            !.sent = Append(@, Message(ChatUser, "error"))]
             ELSE IF Strip(full_text) = <<>>
             THEN [@ EXCEPT !.pc = "done",
                            !.sent = Append(@, Message(ChatUser, "no_speech"))]
             ELSE [@ EXCEPT !.pc = "summarizing", !.text = full_text,
                            !.llm = <<LlmCall("summarize", full_text, <<>>)>>]]
    /\ UNCHANGED <<db, collection, embedder, dist, store>>

\* the summary is there: create_voice_note builds title and body and
\* awaits create_object; or the completion has raised into the except
VoiceSummarized(t) ==
    /\ tasks[t].op = "voice_note" /\ tasks[t].pc = "summarizing"
    /\ \E llmOk \in BOOLEAN, summary \in Summaries, stamp \in Times :
          tasks' = [tasks EXCEPT ![t] =
             IF llmOk
             THEN [@ EXCEPT !.pc = "creating", !.summary = summary,
                      !.title = VoiceNoteTitle(stamp, summary),
                      !.body = VoiceNoteBody(summary, tasks[t].text)]
             ELSE [@ EXCEPT !.pc = "done", !.raised = {"llm"},
                            !.sent = Append(@, Message(ChatUser, "error"))]]
    /\ UNCHANGED <<db, collection, embedder, dist, store>>

\* the external store has created the object, and _index_note calls
\* add_note up to its await; or the client has raised into the except
VoiceCreated(t) ==
    /\ tasks[t].op = "voice_note" /\ tasks[t].pc = "creating"
    /\ \E createOk \in BOOLEAN, now \in Times :
          LET id == NewObjectId(store)
          IN  IF createOk
              THEN /\ store' = Append(store, [id |-> id, name |-> tasks[t].title,
                                                body |-> tasks[t].body])
                   /\ tasks' = [tasks EXCEPT ![t] =
                         IndexCall([@ EXCEPT !.created = id], id, tasks[t].title,
                                   VoiceIndexBody(tasks[t].summary, tasks[t].text),
                                   now)]
              ELSE /\ store' = store
                   /\ tasks' = [tasks EXCEPT ![t] =
                         [@ EXCEPT !.pc = "done", !.raised = {"create"},
                                   !.sent = Append(@, Message(ChatUser, "error"))]]
    /\ UNCHANGED <<db, collection, embedder, dist>>

\* the status message is edited to the saved note, or edit_text has raised
VoiceNotified(t) ==
    /\ tasks[t].op = "voice_note" /\ tasks[t].pc = "notifying"
    /\ \E sendOk \in BOOLEAN :
          tasks' = [tasks EXCEPT ![t] =
             IF sendOk
             THEN [@ EXCEPT !.pc = "done",
                            !.sent = Append(@, Message(ChatUser, "voice_saved"))]
             ELSE [@ EXCEPT !.pc = "done", !.raised = @ \cup {"send"}]]
    /\ UNCHANGED <<db, collection, embedder, dist, store>>

(***************************************************************************)
(* The executor job of add_note and search, step by step                   *)
(***************************************************************************)
\* the worker thread enters get_embedder and tests "_embedder is None"
WorkerEnters(t) ==
    /\ tasks[t].pc = "embedding" /\ tasks[t].thread = "none"
    /\ tasks' = [tasks EXCEPT ![t].thread = IF embedder THEN "ready" ELSE "loading"]
    /\ UNCHANGED <<db, collection, embedder, dist, store>>

\* a load that leaves _embedder set also when the constructor raises
WorkerLoadsKeepsFailure(t) ==
    /\ tasks[t].pc = "embedding" /\ tasks[t].thread = "loading"
    /\ \E loadOk \in BOOLEAN :
          /\ embedder' = TRUE
          /\ tasks' = [tasks EXCEPT ![t].thread = IF loadOk THEN "ready" ELSE "failed"]
    /\ UNCHANGED <<db, collection, dist, store>>

\* the worker thread constructs the model and assigns it to _embedder, or
\* the constructor raises
WorkerLoads(t) ==
    /\ tasks[t].pc = "embedding" /\ tasks[t].thread = "loading"
    /\ \E loadOk \in BOOLEAN :
          /\ embedder' = (embedder \/ loadOk)
          /\ tasks' = [tasks EXCEPT ![t].thread = IF loadOk THEN "ready" ELSE "failed"]
    /\ UNCHANGED <<db, collection, dist, store>>

\* the exception of the constructor comes out of the await and is caught:
\* add_note returns false, search the empty list
WorkerRaised(t) ==
    /\ tasks[t].pc = "embedding" /\ tasks[t].thread = "failed"
    /\ tasks[t].op \in {"add_note", "search"}
    /\ tasks' = [tasks EXCEPT ![t].pc = "done", ![t].ok = FALSE,
                              ![t].notes = <<>>, ![t].usedEmbedder = TRUE,
                              ![t].raised = {"embed"}]
    /\ UNCHANGED <<db, collection, embedder, dist, store>>

(***************************************************************************)
(* Specification of the service under concurrent callers                   *)
(***************************************************************************)
\* the distances of the embedding model in use
FixedDist ==
    [p \in DistancePairs |->
        CASE p = <<QueryX, TextA>> -> Scale - DefaultMinSimilarity - 2
          [] p = <<QueryX, TextB>> -> Scale + Scale \div 5
          [] p = <<QueryY, TextA>> -> Scale - AskMinSimilarity
          [] p = <<QueryY, TextB>> -> 0
          [] OTHER -> Scale \div 2]

EmptyDb == [exists |-> FALSE, entries |-> EmptyBag]

Init ==
    /\ db = EmptyDb
    /\ collection = FALSE
    /\ embedder = FALSE
    /\ dist = FixedDist
    /\ store = SubSeq(Catalogue, 1, MaxListed)
    /\ tasks = [t \in Tasks |-> Idle]

Next ==
    \/ \E t \in Tasks, id \in NoteIds, text \in NoteTexts, md \in CallerMetas :
          AddNoteCall(t, id, text, md)
    \/ \E t \in Tasks : AddNoteResume(t)
    \/ \E t \in BotTasks, id \in NoteIds : DeleteNote(t, id)
    \/ \E t \in BotTasks : ClearAll(t)
    \/ \E t \in BotTasks, q \in Queries :
          SearchCall(t, q, DefaultNResults, AskMinSimilarity)
    \/ \E t \in Tasks : SearchResume(t)
    \/ \E t \in BotTasks : SyncCall(t)
    \/ \E t \in Tasks : SyncListed(t)
    \/ \E t \in Tasks : SyncFetched(t)
    \/ \E t \in Tasks : SyncEmbedded(t)
    \/ \E t \in Tasks : Return(t)

Spec == Init /\ [][Next]_vars

(***************************************************************************)
(* Specification of search over every corpus, distance and threshold       *)
(***************************************************************************)
SearchLimits == {0, 1, DefaultNResults}

Thresholds ==
    {0 - Scale \div 2, 0, AskMinSimilarity, DefaultMinSimilarity,
     DefaultMinSimilarity + 1}

Distances ==
    {0, Scale - DefaultMinSimilarity - 2, Scale - AskMinSimilarity,
     Scale + Scale \div 5, 2 * Scale}

\* the store a sequence of accepted add_note calls leaves behind
RECURSIVE Corpus(_)
Corpus(calls) ==
    IF calls = <<>> THEN EmptyDb
    ELSE LET c == calls[Len(calls)]
         IN  AddNoteStore(Corpus(SubSeq(calls, 1, Len(calls) - 1)), FALSE,
                          c[1], c[2], NoMeta, CHOOSE now \in Times : TRUE,
                          TRUE, TRUE, TRUE).db

Corpora ==
    {Corpus(<<>>), Corpus(<< <<"n1", TextA>> >>), Corpus(<< <<"n1", TextB>> >>),
     Corpus(<< <<"n1", TextA>>, <<"n2", TextB>> >>),
     Corpus(<< <<"n1", TextA>>, <<"n2", TextA>> >>)}

\* the process starts on a store an earlier run has filled
SearchInit ==
    /\ db \in Corpora
    /\ collection = FALSE
    /\ embedder = FALSE
    /\ \E f \in [AcceptedTexts -> Distances] :
          dist = [p \in DistancePairs |->
                     IF p[1] = QueryX /\ p[2] \in AcceptedTexts
                     THEN f[p[2]] ELSE FixedDist[p]]
    /\ store = SubSeq(Catalogue, 1, MaxListed)
    /\ tasks = [t \in Tasks |-> Idle]

SearchNext ==
    \/ \E t \in BotTasks, q \in Queries, k \in SearchLimits, m \in Thresholds :
          SearchCall(t, q, k, m)
    \/ \E t \in BotTasks : SearchResume(t)
    \/ \E t \in BotTasks : Return(t)

SearchSpec == SearchInit /\ [][SearchNext]_vars

(***************************************************************************)
(* Specification of two /sync commands in a row                            *)
(***************************************************************************)
\* the process starts on a store an earlier run has filled
SyncInit ==
    /\ db \in Corpora
    /\ collection = FALSE
    /\ embedder = FALSE
    /\ dist = FixedDist
    /\ store = SubSeq(Catalogue, 1, MaxListed)
    /\ tasks = [t \in Tasks |-> Idle]

\* the handler of the first /sync is the task "bot"; the handler of the
\* second, started once the first run has returned its stats, is the task
\* "web", so that a state holds the stats of both runs; the two handlers
\* have returned before the next /sync is handled
SyncNext ==
    \/ tasks["web"].pc = "idle" /\ SyncCall("bot")
    \/ tasks["bot"].op = "sync" /\ tasks["bot"].pc = "done" /\ SyncCall("web")
    \/ \E t \in Tasks : SyncListed(t)
    \/ \E t \in Tasks : SyncFetched(t)
    \/ \E t \in Tasks : SyncEmbedded(t)
    \/ tasks["web"].pc \in {"idle", "done"} /\ Return("bot")
    \/ tasks["bot"].pc = "idle" /\ Return("web")

SyncSpec == SyncInit /\ [][SyncNext]_vars

(***************************************************************************)
(* Specification of /sync when the index holds notes the store no longer   *)
(* lists                                                                   *)
(***************************************************************************)
\* the listing returns the first notes of the catalogue, or none; the index
\* was filled when the store listed more
ListedInit ==
    /\ db \in Corpora
    /\ collection = FALSE
    /\ embedder = FALSE
    /\ dist = FixedDist
    /\ \E k \in 0..MaxListed : store = SubSeq(Catalogue, 1, k)
    /\ tasks = [t \in Tasks |-> Idle]

ListedSpec == ListedInit /\ [][SyncNext]_vars

(***************************************************************************)
(* Specification of the web endpoints of the extension                     *)
(***************************************************************************)
Tokens == {"tok-1", "tok-0"}

ChunkTexts == {<<>>, Rep("w", MinChunkLen - 1), Rep("w", MinChunkLen)}
Transcripts == {<<>>, Rep("w", MinTranscriptLen - 1), Rep("w", MinTranscriptLen)}

\* the intermediate summaries a request may carry, in any order, numbered
\* or not
ChunkPool == {Chunk(TRUE, 1, <<"A">>), Chunk(TRUE, 2, <<"B">>), Chunk(FALSE, 0, <<"C">>)}
ChunkLists == UNION {[1..n -> ChunkPool] : n \in 0..MaxChunks}

ChunkRequests == {Request(tk, x, 1, <<>>) : tk \in Tokens, x \in ChunkTexts}
SaveRequests ==
    {Request(r[1], r[2], 0, r[3]) : r \in Tokens \X Transcripts \X ChunkLists}

WebInit ==
    /\ db = EmptyDb
    /\ collection = FALSE
    /\ embedder = FALSE
    /\ dist = FixedDist
    /\ store = SubSeq(Catalogue, 1, MaxListed)
    /\ tasks = [t \in Tasks |-> Idle]

WebNext ==
    \/ \E req \in ChunkRequests : SummarizeChunkCall("web", req)
    \/ SummarizeChunkDone("web")
    \/ \E req \in SaveRequests : SaveCall("web", req)
    \/ SaveWarned("web")
    \/ SaveSummarized("web")
    \/ SaveCreated("web")
    \/ SaveIndexed("web")
    \/ SaveNotified("web")
    \/ Return("web")

WebSpec == WebInit /\ [][WebNext]_vars

(***************************************************************************)
(* Specification of the /ask command over every corpus and distance        *)
(***************************************************************************)
\* the texts of the messages: the bare command, a blank question, a short
\* one, and one that is searched for
AskTexts ==
    {AskCmd, AskCmd \o Rep(" ", MaxPad + 1), AskCmd \o <<" ">> \o ShortQuery,
     AskCmd \o <<" ">> \o QueryX \o Rep(" ", MaxPad)}

AskNext ==
    \/ \E text \in AskTexts, allowed \in BOOLEAN : AskCall("bot", text, allowed)
    \/ AskSearch("bot")
    \/ SearchResume("bot")
    \/ AskAnswer("bot")
    \/ Return("bot")

AskSpec == SearchInit /\ [][AskNext]_vars

(***************************************************************************)
(* Specification of the first uses of the embedding model                  *)
(***************************************************************************)
\* the two handlers call add_note and search; the job each hands to the
\* executor runs on a worker thread of its own, and the coroutine resumes
\* once the thread holds the model
EmbedNext ==
    \/ \E t \in Tasks, id \in NoteIds, text \in NoteTexts :
          AddNoteCall(t, id, text, NoMeta)
    \/ \E t \in BotTasks, q \in Queries :
          SearchCall(t, q, DefaultNResults, AskMinSimilarity)
    \/ \E t \in Tasks : WorkerEnters(t)
    \/ \E t \in Tasks : WorkerLoads(t)
    \/ \E t \in Tasks : WorkerRaised(t)
    \/ \E t \in Tasks : tasks[t].thread = "ready" /\ AddNoteResume(t)
    \/ \E t \in Tasks : tasks[t].thread = "ready" /\ SearchResume(t)
    \/ \E t \in Tasks : Return(t)

EmbedSpec == Init /\ [][EmbedNext]_vars

(***************************************************************************)
(* Specification of two add_note calls that run at the same time           *)
(***************************************************************************)
\* each handler calls add_note once, with a text add_note accepts, on an
\* index an earlier run has filled; the two calls and their executor jobs
\* interleave in every way
PairNext ==
    \/ \E t \in Tasks, id \in NoteIds, text \in AcceptedTexts, md \in CallerMetas :
          AddNoteCall(t, id, text, md)
    \/ \E t \in Tasks : WorkerEnters(t)
    \/ \E t \in Tasks : WorkerLoads(t)
    \/ \E t \in Tasks : WorkerRaised(t)
    \/ \E t \in Tasks : tasks[t].thread = "ready" /\ AddNoteResume(t)

PairSpec == SyncInit /\ [][PairNext]_vars

(***************************************************************************)
(* Specification of calls made one after the other while the model loads   *)
(* or fails to load                                                        *)
(***************************************************************************)
\* the handler "bot" makes a call; once it has its result the handler "web"
\* makes the next call, so that a state holds the results of both
RetryNext ==
    \/ /\ tasks["web"].pc = "idle"
       /\ \E id \in NoteIds, text \in NoteTexts : AddNoteCall("bot", id, text, NoMeta)
    \/ /\ tasks["web"].pc = "idle"
       /\ \E q \in Queries : SearchCall("bot", q, DefaultNResults, AskMinSimilarity)
    \/ /\ tasks["bot"].pc = "done"
       /\ \E id \in NoteIds, text \in AcceptedTexts : AddNoteCall("web", id, text, NoMeta)
    \/ /\ tasks["bot"].pc = "done"
       /\ \E q \in ValidQueries :
             SearchCall("web", q, DefaultNResults, AskMinSimilarity)
    \/ \E t \in Tasks : WorkerEnters(t)
    \/ \E t \in Tasks : WorkerLoads(t)
    \/ \E t \in Tasks : WorkerRaised(t)
    \/ \E t \in Tasks : tasks[t].thread = "ready" /\ AddNoteResume(t)
    \/ \E t \in Tasks : tasks[t].thread = "ready" /\ SearchResume(t)
    \/ tasks["web"].pc \in {"idle", "done"} /\ Return("bot")
    \/ tasks["bot"].pc = "idle" /\ Return("web")

RetrySpec == Init /\ [][RetryNext]_vars

(***************************************************************************)
(* Specification of the four endpoints that take a token                   *)
(***************************************************************************)
Events == {"recording_started", "saved", "error", "unknown"}
EventRequests == {EventRequest(tk, ev) : tk \in Tokens, ev \in Events}

\* the requests to the save endpoint with at most one chunk summary
TokenSaveRequests == {r \in SaveRequests : Len(r.chunks) <= 1}

TokenNext ==
    \/ \E tk \in Tokens : GetConfigCall("web", tk)
    \/ \E req \in EventRequests : LogEventCall("web", req)
    \/ LogEventSent("web")
    \/ \E req \in ChunkRequests : SummarizeChunkCall("web", req)
    \/ SummarizeChunkDone("web")
    \/ \E req \in TokenSaveRequests : SaveCall("web", req)
    \/ SaveWarned("web")
    \/ SaveSummarized("web")
    \/ SaveCreated("web")
    \/ SaveIndexed("web")
    \/ SaveNotified("web")
    \/ Return("web")

TokenSpec == WebInit /\ [][TokenNext]_vars

(***************************************************************************)
(* Specification of a note the bot creates and a /sync after it            *)
(***************************************************************************)
\* the requests to the save endpoint that lead to a note
CreateRequests ==
    {r \in SaveRequests : /\ ~TokenInvalid(r.token)
                          /\ ~TranscriptTooShort(r.text)
                          /\ r.chunks = <<>>}

\* what the transcription of a voice message may return
VoiceTexts == {<<>>, Rep(" ", MaxPad), Rep("v", 6) \o <<"\n">> \o Rep("v", 3)}

\* the handler "web" saves a meeting or the handler "bot" a voice message;
\* once the note is created and the handler has finished, the other
\* handler runs /sync
CreateNext ==
    \/ /\ \A t \in Tasks : tasks[t].pc = "idle"
       /\ \E req \in CreateRequests : SaveCall("web", req)
    \/ SaveSummarized("web")
    \/ SaveCreated("web")
    \/ SaveNotified("web")
    \/ /\ \A t \in Tasks : tasks[t].pc = "idle"
       /\ \E allowed \in BOOLEAN : VoiceCall("bot", allowed)
    \/ \E full_text \in VoiceTexts : VoiceTranscribed("bot", full_text)
    \/ VoiceSummarized("bot")
    \/ VoiceCreated("bot")
    \/ VoiceNotified("bot")
    \/ \E t \in Tasks : SaveIndexed(t)
    \/ /\ tasks["web"].op = "save_transcript" /\ tasks["web"].pc = "done"
       /\ SyncCall("bot")
    \/ /\ tasks["bot"].op = "voice_note" /\ tasks["bot"].pc = "done"
       /\ SyncCall("web")
    \/ \E t \in Tasks : SyncListed(t)
    \/ \E t \in Tasks : SyncFetched(t)
    \/ \E t \in Tasks : SyncEmbedded(t)
    \/ \E t \in Tasks :
          /\ \A u \in Tasks \ {t} : tasks[u].pc \in {"idle", "done"}
          /\ Return(t)

CreateSpec == WebInit /\ [][CreateNext]_vars

(***************************************************************************)
(* Properties                                                              *)
(***************************************************************************)
Range(f) == {f[x] : x \in DOMAIN f}

\* the step of task t in which add_note resumes after the embedding
AddNoteWrites(t) ==
    tasks[t].op = "add_note" /\ tasks[t].pc = "embedding" /\ tasks'[t].pc = "done"

\* the step of task t in which search resumes after the embedding
SearchReads(t) ==
    tasks[t].op = "search" /\ tasks[t].pc = "embedding" /\ tasks'[t].pc = "done"

\* the step in which task t calls operation op
Calls(t, op) ==
    tasks[t].pc = "idle" /\ tasks'[t].pc # "idle" /\ tasks'[t].op = op

\* the stored metadata is that of a call with the given metadata and text
MetaOfCall(stored, given, text) ==
    /\ DOMAIN stored =
          {k \in DOMAIN given.dict : given.dict[k] # NoneV}
             \cup {"indexed_at", "text_length"}
    /\ \A k \in DOMAIN given.dict \ {"indexed_at", "text_length"} :
          given.dict[k] # NoneV => stored[k] = given.dict[k]
    /\ stored["text_length"] = IntV(Len(text))

\* C1: in every reachable state the index holds at most one entry per
\* note id, whatever add_note, delete_note, clear_all and sync_all_notes
\* calls ran and however they interleaved.
C1_OneEntryPerId ==
    \A e1 \in BagToSet(db.entries) :
        /\ db.entries[e1] = 1
        /\ \A e2 \in BagToSet(db.entries) : e1.id = e2.id => e1 = e2

\* both handlers have re-added the same id with different texts, next to an
\* entry of the other id
C1_Witness ==
    /\ \A t \in Tasks : /\ tasks[t].op = "add_note" /\ tasks[t].pc = "done"
                        /\ tasks[t].ok /\ tasks[t].note_id = "n1"
    /\ tasks["bot"].text # tasks["web"].text
    /\ CollectionCount(db.entries) = 2

C3_ReplaceIsAtomic ==
    [][\A t \in Tasks :
          (AddNoteWrites(t) /\ EntriesOf(db.entries, tasks[t].note_id) # {})
          => LET before == EntriesOf(db.entries, tasks[t].note_id)
                 after == EntriesOf(db'.entries, tasks[t].note_id)
             IN  /\ after # {}
                 /\ \A e \in after :
                       e \in before \/ e.document = tasks[t].text
      ]_vars

\* C4: add_note with an empty text or a text of trimmed length below 20
\* returns false and leaves the index unchanged; the embedder is not used.
C4_ShortTextRejected ==
    [][\A t \in Tasks :
          ( /\ Calls(t, "add_note")
            /\ \/ tasks'[t].text = <<>>
               \/ Len(Strip(tasks'[t].text)) < MinTextLen )
          => /\ tasks'[t].pc = "done" /\ ~tasks'[t].ok
             /\ ~tasks'[t].usedEmbedder /\ ~tasks'[t].usedIndex
             /\ db' = db /\ collection' = collection /\ embedder' = embedder
      ]_vars

\* a padded text of 19 characters has been rejected on a filled index
C4_Witness ==
    /\ tasks["bot"].op = "add_note" /\ tasks["bot"].pc = "done"
    /\ tasks["bot"].text = Padded(MaxPad, ShortBody, MaxPad)
    /\ ~tasks["bot"].ok /\ ~tasks["bot"].usedEmbedder
    /\ CollectionCount(db.entries) = 2

\* C5: every element search returns carries a similarity, the rounded
\* value of the result, that is at least min_similarity.
C5_ReportedAtLeastThreshold ==
    \A t \in Tasks :
        (tasks[t].op = "search" /\ tasks[t].pc = "done") =>
            \A i \in 1..Len(tasks[t].notes) :
                tasks[t].notes[i].similarity >= tasks[t].min_similarity

IsSubList(a, b) == Range(a) \subseteq Range(b) /\ Len(a) <= Len(b)

\* C6: for the same query, limit and corpus, the result of a search with
\* a higher threshold is a subset of, and no longer than, the result with a
\* lower threshold.
C6_ThresholdMonotone ==
    \A t \in Tasks :
        (tasks[t].op = "search" /\ tasks[t].pc = "done") =>
            \A m \in Thresholds :
                LET other == ProcessResults(tasks[t].results, m, <<>>)
                IN  /\ m >= tasks[t].min_similarity => IsSubList(other, tasks[t].notes)
                    /\ m <= tasks[t].min_similarity => IsSubList(tasks[t].notes, other)

\* a search has returned two notes of which a higher threshold keeps one
C6_Witness ==
    /\ tasks["bot"].op = "search" /\ tasks["bot"].pc = "done"
    /\ Len(tasks["bot"].notes) = 2
    /\ \E m \in Thresholds :
          /\ m > tasks["bot"].min_similarity
          /\ Len(ProcessResults(tasks["bot"].results, m, <<>>)) = 1

\* C7: search with a query of trimmed length 3 or more on an index with no
\* entry returns the empty list and does not query the index.
C7_EmptyIndexNoQuery ==
    [][\A t \in Tasks :
          (SearchReads(t) /\ CollectionCount(db.entries) = 0)
          => /\ tasks'[t].notes = <<>>
             /\ ~tasks'[t].queried
             /\ Len(Strip(tasks[t].query)) >= MinQueryLen
      ]_vars

\* a search has run to its end, no step raising, on a collection that
\* exists and is empty
C7_Witness ==
    /\ tasks["bot"].op = "search" /\ tasks["bot"].pc = "done"
    /\ tasks["bot"].usedIndex /\ tasks["bot"].raised = {}
    /\ tasks["bot"].notes = <<>> /\ ~tasks["bot"].queried
    /\ db.exists /\ collection /\ CollectionCount(db.entries) = 0

\* C8: search with an empty query or a query of trimmed length below 3
\* returns the empty list at once; neither the embedder nor the index is
\* touched.
C8_ShortQueryRejected ==
    [][\A t \in Tasks :
          ( /\ Calls(t, "search")
            /\ \/ tasks'[t].query = <<>>
               \/ Len(Strip(tasks'[t].query)) < MinQueryLen )
          => /\ tasks'[t].pc = "done" /\ tasks'[t].notes = <<>>
             /\ ~tasks'[t].usedEmbedder /\ ~tasks'[t].usedIndex
             /\ ~tasks'[t].queried
             /\ db' = db /\ collection' = collection /\ embedder' = embedder
      ]_vars

\* a padded query of 2 characters has been rejected on a filled index
C8_Witness ==
    /\ tasks["bot"].op = "search" /\ tasks["bot"].pc = "done"
    /\ tasks["bot"].query = Padded(MaxPad, ShortQuery, MaxPad)
    /\ tasks["bot"].notes = <<>> /\ ~tasks["bot"].usedEmbedder
    /\ CollectionCount(db.entries) = 2

IdsOf(list) == [i \in DOMAIN list |-> list[i].id]

\* C9: the list search returns keeps the order of the index: ascending
\* distance, that is non-increasing similarity, and the filter does not
\* reorder what it keeps.
C9_OrderKept ==
    \A t \in Tasks :
        (tasks[t].op = "search" /\ tasks[t].pc = "done") =>
            LET notes == tasks[t].notes
                results == tasks[t].results
                Kept(id) == id \in Range(IdsOf(notes))
            IN  /\ \A i, j \in 1..Len(notes) :
                      i < j => notes[i].similarity >= notes[j].similarity
                /\ \A i, j \in 1..Len(results) :
                      i < j => results[i].distance <= results[j].distance
                /\ IdsOf(notes) = SelectSeq(IdsOf(results), Kept)

\* a search has returned two notes of different similarity
C9_Witness ==
    /\ tasks["bot"].op = "search" /\ tasks["bot"].pc = "done"
    /\ Len(tasks["bot"].notes) = 2
    /\ tasks["bot"].notes[1].similarity > tasks["bot"].notes[2].similarity

\* C10: every similarity search returns lies in [0, 1], whatever distance
\* the cosine index reports and whatever threshold the caller passes.
C10_SimilarityInUnitInterval ==
    \A t \in Tasks :
        (tasks[t].op = "search" /\ tasks[t].pc = "done") =>
            \A i \in 1..Len(tasks[t].notes) :
                /\ tasks[t].notes[i].similarity >= 0
                /\ tasks[t].notes[i].similarity <= Scale

\* C11: add_note and search never propagate an exception: when the
\* embedding step or an index step (open, count, delete, add, query) fails,
\* add_note returns false and search returns the empty list.
C11_FailureGivesFalseOrEmpty ==
    [][\A t \in Tasks :
          /\ (AddNoteWrites(t) /\ tasks'[t].raised # {}) => ~tasks'[t].ok
          /\ (SearchReads(t) /\ tasks'[t].raised # {}) => tasks'[t].notes = <<>>
      ]_vars

\* the step of task t in which an add_note, called directly or by the sync
\* run, resumes after the embedding
IndexWrites(t) ==
    /\ tasks[t].op \in {"add_note", "sync"}
    /\ tasks[t].pc = "embedding" /\ tasks'[t].pc # "embedding"

\* C12: every entry an accepted add_note persists has metadata with
\* indexed_at and text_length set, text_length being the length of the text
\* passed in, and holds no key of value None: the keys the caller passed
\* with None are dropped, every other key of the caller is kept.
C12_StoredMetadata ==
    [][\A t \in Tasks :
          IndexWrites(t) =>
             \A e \in BagToSet(db'.entries) \ BagToSet(db.entries) :
                /\ e.id = tasks[t].note_id /\ e.document = tasks[t].text
                /\ "indexed_at" \in DOMAIN e.metadata
                /\ e.metadata["indexed_at"].kind = "str"
                /\ "text_length" \in DOMAIN e.metadata
                /\ e.metadata["text_length"] = IntV(Len(tasks[t].text))
                /\ \A k \in DOMAIN e.metadata : e.metadata[k] # NoneV
                /\ MetaOfCall(e.metadata, tasks[t].metadata, tasks[t].text)
      ]_vars

\* add_note(n1, TextB, {title: "B", created: None}) has stored its entry:
\* the title and the two stamps, without the key created
C12_Witness ==
    /\ tasks["bot"].op = "add_note" /\ tasks["bot"].pc = "done"
    /\ tasks["bot"].ok /\ tasks["bot"].metadata = MetaT
    /\ tasks["bot"].text = TextB
    /\ \E e \in EntriesOf(db.entries, tasks["bot"].note_id) :
          /\ e.document = TextB
          /\ DOMAIN e.metadata = {"title", "indexed_at", "text_length"}
          /\ e.metadata["title"] = Str(<<"B">>)
          /\ e.metadata["text_length"] = IntV(Len(TextB))

\* the entries of the ids other than id, each with its number of copies
OtherEntries(entries, id) ==
    [e \in {x \in BagToSet(entries) : x.id # id} |-> entries[e]]

\* C13: delete_note(id) removes the entry of id and leaves every other
\* entry as it was; when id is not indexed the call is a no-op that does
\* not raise, leaves count() unchanged and returns true.
C13_DeleteFrame ==
    [][\A t \in Tasks :
          Calls(t, "delete_note") =>
             LET id == tasks'[t].note_id
             IN  /\ tasks'[t].pc = "done"
                 /\ OtherEntries(db'.entries, id) = OtherEntries(db.entries, id)
                 /\ tasks'[t].raised = {} =>
                       /\ tasks'[t].ok
                       /\ EntriesOf(db'.entries, id) = {}
                       /\ EntriesOf(db.entries, id) = {} =>
                             /\ db'.entries = db.entries
                             /\ CollectionCount(db'.entries) =
                                   CollectionCount(db.entries)
      ]_vars

\* delete_note(n1) has returned true on an index that keeps its entry of n2
C13_Witness ==
    /\ tasks["bot"].op = "delete_note" /\ tasks["bot"].pc = "done"
    /\ tasks["bot"].ok /\ tasks["bot"].note_id = "n1"
    /\ EntriesOf(db.entries, "n1") = {}
    /\ \E e \in EntriesOf(db.entries, "n2") : e.document = TextB
    /\ CollectionCount(db.entries) = 1

\* the step of the sync run of task t in which the note at hand fails: its
\* fetch raises, or its add_note resumes and does not report success
SyncNoteFails(t) ==
    /\ tasks[t].op = "sync"
    /\ \/ /\ tasks[t].pc = "fetching"
          /\ "fetch" \in tasks'[t].raised \ tasks[t].raised
       \/ /\ tasks[t].pc = "embedding" /\ tasks'[t].pc # "embedding"
          /\ tasks'[t].stats.synced = tasks[t].stats.synced

\* C14: during sync_all_notes every listed note whose fetch raises or whose
\* indexing fails (embedding or index error inside add_note) increments
\* errors by exactly one, and the run goes on with the next listed note: a
\* single failure never aborts the run.
C14_FailureCountsAsError ==
    [][\A t \in Tasks :
          SyncNoteFails(t) =>
             /\ tasks'[t].stats =
                   [tasks[t].stats EXCEPT !.errors = tasks[t].stats.errors + 1]
             /\ IF tasks[t].i < Len(store)
                THEN tasks'[t].pc = "fetching" /\ tasks'[t].i = tasks[t].i + 1
                ELSE tasks'[t].pc = "done"
      ]_vars

\* the ids of the index with their documents
Docs(entries) == {<<e.id, e.document>> : e \in BagToSet(entries)}

\* C15: two runs of sync_all_notes in a row, over unchanged external data
\* and with no failure, both end with errors = 0 and with the same synced
\* count (nothing is skipped as already synced), and the second run leaves
\* the ids, the documents and the count of the index as the first left them.
C15_SyncTwiceSame ==
    [][( /\ tasks["bot"].op = "sync" /\ tasks["bot"].pc = "done"
         /\ tasks["bot"].raised = {}
         /\ tasks["web"].op = "sync" /\ tasks'["web"] # tasks["web"]
         /\ tasks'["web"].op = "sync" /\ tasks'["web"].raised = {} )
       => /\ Docs(db'.entries) = Docs(db.entries)
          /\ CollectionCount(db'.entries) = CollectionCount(db.entries)
          /\ tasks["bot"].stats.errors = 0
          /\ tasks'["web"].pc = "done" =>
                /\ tasks'["web"].stats.errors = 0
                /\ tasks'["web"].stats.synced = tasks["bot"].stats.synced
                /\ tasks'["web"].stats = tasks["bot"].stats
      ]_vars

\* both runs have ended without a failure, each having synced the note n1,
\* on an index that also holds an entry of n2
C15_Witness ==
    /\ \A t \in Tasks : /\ tasks[t].op = "sync" /\ tasks[t].pc = "done"
                        /\ tasks[t].raised = {} /\ tasks[t].stats.synced = 1
    /\ CollectionCount(db.entries) = 2
    /\ \E e \in EntriesOf(db.entries, "n1") :
          e.document = FullText(Catalogue[1].name, Catalogue[1].body)
    /\ EntriesOf(db.entries, "n2") # {}

\* C16: combine_summaries formats the prompt context with the parts in
\* ascending order of chunkNumber, whatever the order of the input list:
\* for the input [{2, B}, {1, A}] the part labelled 1 comes before the part
\* labelled 2.
C16_PartsAscending ==
    \A t \in Tasks : \A k \in 1..Len(tasks[t].llm) :
        tasks[t].llm[k].method = "combine_summaries" =>
            LET parts == tasks[t].llm[k].parts
            IN  \A i, j \in 1..Len(parts) :
                   i < j => parts[i].label <= parts[j].label

\* C18: a save request with a valid token and a transcript of at least 10
\* characters runs exactly one summarization before the note is created:
\* combine_summaries if and only if the list of chunk summaries is not
\* empty, otherwise summarize on the full transcript; never both, never
\* neither.
C18_OneSummarizationPath ==
    \A t \in Tasks :
        tasks[t].op = "save_transcript" =>
            LET req == tasks[t].request
                valid == /\ ~TokenInvalid(req.token)
                         /\ Len(req.text) >= MinTranscriptLen
            IN  /\ valid =>
                      /\ Len(tasks[t].llm) = 1
                      /\ req.chunks # <<>> =>
                            /\ tasks[t].llm[1].method = "combine_summaries"
                            /\ tasks[t].llm[1].parts = SummariesText(req.chunks)
                      /\ req.chunks = <<>> =>
                            /\ tasks[t].llm[1].method = "summarize"
                            /\ tasks[t].llm[1].text = req.text
                /\ tasks[t].created # "" => valid /\ Len(tasks[t].llm) = 1
                /\ ~valid => tasks[t].llm = <<>>

\* a meeting of two chunk summaries has been saved after the one call of
\* combine_summaries
C18_Witness ==
    /\ tasks["web"].op = "save_transcript" /\ tasks["web"].pc = "done"
    /\ tasks["web"].response.status = 200
    /\ tasks["web"].created # ""
    /\ Len(tasks["web"].request.chunks) = 2
    /\ Len(tasks["web"].llm) = 1
    /\ tasks["web"].llm[1].method = "combine_summaries"
    /\ \E i \in 1..Len(store) : store[i].id = tasks["web"].created

\* C19: summarize_chunk is never called with a text shorter than 50
\* characters: the chunk endpoint answers such a request with an error
\* before it calls the summarizer.
C19_NoShortChunkSummarized ==
    \A t \in Tasks :
        /\ \A k \in 1..Len(tasks[t].llm) :
              tasks[t].llm[k].method = "summarize_chunk" =>
                  Len(tasks[t].llm[k].text) >= MinChunkLen
        /\ ( /\ tasks[t].op = "summarize_chunk"
             /\ Len(tasks[t].request.text) < MinChunkLen )
           => /\ tasks[t].pc = "done"
              /\ tasks[t].llm = <<>>
              /\ tasks[t].response.status \in {400, 401}

\* a chunk of 49 characters with a valid token has been refused with 400
C19_Witness ==
    /\ tasks["web"].op = "summarize_chunk" /\ tasks["web"].pc = "done"
    /\ ~TokenInvalid(tasks["web"].request.token)
    /\ Len(tasks["web"].request.text) = MinChunkLen - 1
    /\ tasks["web"].response.status = 400
    /\ tasks["web"].llm = <<>>

\* C17: when a question reaches the ask flow and search returns at least
\* one result, the handler builds the context of the results, calls the
\* answer generation with the question and that context, and delivers the
\* answer to the user: on this path the flow does not end in an error.
C17_AskDeliversAnswer ==
    \A t \in Tasks :
        (tasks[t].op = "ask" /\ tasks[t].pc = "done" /\ tasks[t].notes # <<>>)
        => /\ tasks[t].llm = <<LlmCall("ask", tasks[t].query,
                                        BuildContext(tasks[t].notes))>>
           /\ tasks[t].sent[Len(tasks[t].sent)].kind = "answer"
           /\ \A i \in 1..Len(tasks[t].sent) : tasks[t].sent[i].kind # "error"

\* C20: the embedding model is initialized at most once per process, also
\* when several add_note and search calls make their first use of it at
\* the same time from worker threads of the executor: a thread constructs
\* the model only when none has been loaded, and every later call uses the
\* model that was loaded.
C20_EmbedderLoadedOnce ==
    [][\A t \in Tasks :
          /\ (tasks[t].thread = "loading" /\ tasks'[t].thread = "ready")
                => ~embedder
          /\ embedder => embedder'
      ]_vars

\* the call of task t has run to its end and no step of it raised
CleanAddNote(t) ==
    /\ tasks[t].op = "add_note" /\ tasks[t].pc = "done"
    /\ tasks[t].raised = {}

\* the index holds one entry of the id, with the text and metadata of the
\* call of task t
HoldsEntryOf(entries, t) ==
    /\ Cardinality(EntriesOf(entries, tasks[t].note_id)) = 1
    /\ \A e \in EntriesOf(entries, tasks[t].note_id) :
          /\ entries[e] = 1
          /\ e.document = tasks[t].text
          /\ MetaOfCall(e.metadata, tasks[t].metadata, tasks[t].text)

\* C21: two add_note calls at the same time, with different ids and
\* accepted texts, interleaved in any way at their suspension points and no
\* step raising, both return true, and afterwards both entries are there,
\* each with the text and metadata of its own call.
C21_DifferentIdsBothStored ==
    ( /\ \A t \in Tasks : CleanAddNote(t)
      /\ tasks["bot"].note_id # tasks["web"].note_id )
    => /\ \A t \in Tasks : tasks[t].ok /\ HoldsEntryOf(db.entries, t)
       /\ CollectionCount(db.entries) = 2

\* add_note(n1, TextA, no metadata) and add_note(n2, TextB, MetaT) have both
\* returned true, both worker threads having loaded the model
C21_Witness ==
    /\ \A t \in Tasks : CleanAddNote(t) /\ tasks[t].ok
    /\ tasks["bot"].note_id = "n1" /\ tasks["bot"].text = TextA
    /\ tasks["bot"].metadata = NoMeta
    /\ tasks["web"].note_id = "n2" /\ tasks["web"].text = TextB
    /\ tasks["web"].metadata = MetaT
    /\ HoldsEntryOf(db.entries, "bot") /\ HoldsEntryOf(db.entries, "web")

\* C22: two add_note calls at the same time for the same id, interleaved in
\* any way at their suspension points and no step raising, end with exactly
\* one entry of the id, whose document and metadata are both those of the
\* call whose index write ran last; the entry is never a mix of the two.
C22_SameIdLastWriterWins ==
    [][\A t \in Tasks : \A u \in Tasks \ {t} :
          ( /\ AddNoteWrites(t) /\ tasks'[t].raised = {}
            /\ tasks[u].op = "add_note"
            /\ tasks[u].note_id = tasks[t].note_id
            /\ tasks[u].pc = "embedding" \/ CleanAddNote(u) )
          => /\ tasks'[t].ok
             /\ HoldsEntryOf(db'.entries, t)
             /\ tasks'[u] = tasks[u]
      ]_vars

\* add_note(n1, TextA, no metadata) and add_note(n1, TextB, MetaT) have both
\* returned true, and the one entry of n1 is that of the second call
C22_Witness ==
    /\ \A t \in Tasks : CleanAddNote(t) /\ tasks[t].ok /\ tasks[t].note_id = "n1"
    /\ tasks["bot"].text = TextA /\ tasks["bot"].metadata = NoMeta
    /\ tasks["web"].text = TextB /\ tasks["web"].metadata = MetaT
    /\ HoldsEntryOf(db.entries, "web")
    /\ \A t \in Tasks : tasks[t].thread = "ready"

\* C23: while the embedding model cannot be loaded, every add_note returns
\* false and every search on a valid query returns the empty list, the
\* process keeps running and the index is unchanged; the failure is not
\* cached: every call tries the load again, and the first call whose load
\* succeeds after a failed one returns true.
C23_LoadFailureNotCached ==
    [][\A t \in Tasks :
          \* the call whose load failed returns false or the empty list
          /\ ( /\ tasks[t].pc = "embedding" /\ tasks[t].thread = "failed"
               /\ tasks'[t] # tasks[t] )
             => /\ tasks'[t].pc = "done"
                /\ ~tasks'[t].ok /\ tasks'[t].notes = <<>>
                /\ db' = db /\ collection' = collection
                /\ embedder' = embedder
          \* the failed load leaves no trace
          /\ (tasks[t].thread = "loading" /\ tasks'[t].thread = "failed")
             => embedder' = embedder /\ db' = db /\ collection' = collection
          \* every call loads the model when none is loaded
          /\ (tasks[t].thread = "none" /\ tasks'[t].thread # "none")
             => tasks'[t].thread = IF embedder THEN "ready" ELSE "loading"
          \* the call after a failed one succeeds once its load does
          /\ \A u \in Tasks \ {t} :
                ( /\ AddNoteWrites(t) /\ tasks'[t].raised = {}
                  /\ tasks[u].pc = "done" /\ tasks[u].thread = "failed" )
                => tasks'[t].ok /\ HoldsEntryOf(db'.entries, t)
      ]_vars

\* add_note of the first handler has returned false for a model that did
\* not load; add_note of the second, called after it, has loaded the model
\* and stored its entry
C23_Witness ==
    /\ tasks["bot"].op = "add_note" /\ tasks["bot"].pc = "done"
    /\ tasks["bot"].thread = "failed" /\ ~tasks["bot"].ok
    /\ ~TextRejected(tasks["bot"].text)
    /\ CleanAddNote("web") /\ tasks["web"].ok /\ tasks["web"].thread = "ready"
    /\ embedder /\ HoldsEntryOf(db.entries, "web")
    /\ CollectionCount(db.entries) = 1

\* a step of the sync run of task t
SyncSteps(t) == tasks[t].op = "sync" /\ tasks'[t] # tasks[t]

\* the text sync_all_notes builds of objects[i] once its fetch has succeeded
ListedText(t) == FullText(store[tasks[t].i].name, store[tasks[t].i].body)

\* the fetch of objects[i] has succeeded in this step: the inner except,
\* which alone counts an error inside the loop, has not run
Fetched(t) ==
    /\ SyncSteps(t) /\ tasks[t].pc = "fetching"
    /\ tasks'[t].stats.errors = tasks[t].stats.errors

\* C24: in sync_all_notes a listed note whose title and body, concatenated,
\* are shorter than 20 characters increments skipped and is not passed to
\* add_note; a listed note whose fetch succeeds with a text of at least 20
\* characters is passed to add_note once, under the id of the note and with
\* that id as anytype_id in the metadata.
C24_SyncPassesLongNotesOnce ==
    [][\A t \in Tasks :
          /\ (Fetched(t) /\ Len(ListedText(t)) < SyncMinTextLen)
             => /\ tasks'[t].stats = Bump(tasks[t].stats, "skipped")
                /\ tasks'[t].pc # "embedding"
                /\ tasks'[t].pc = "fetching" => tasks'[t].i = tasks[t].i + 1
          /\ (Fetched(t) /\ Len(ListedText(t)) >= SyncMinTextLen)
             => \* add_note returns false at its guard, before any await
                \/ /\ TextRejected(ListedText(t))
                   /\ tasks'[t].stats = Bump(tasks[t].stats, "skipped")
                   /\ tasks'[t].pc # "embedding"
                \* or add_note runs up to its await
                \/ /\ ~TextRejected(ListedText(t))
                   /\ tasks'[t].pc = "embedding" /\ tasks'[t].i = tasks[t].i
                   /\ tasks'[t].stats = tasks[t].stats
                   /\ tasks'[t].note_id = store[tasks[t].i].id
                   /\ tasks'[t].text = ListedText(t)
                   /\ tasks'[t].metadata.given
                   /\ "anytype_id" \in DOMAIN tasks'[t].metadata.dict
                   /\ tasks'[t].metadata.dict["anytype_id"] =
                         Str(<<store[tasks[t].i].id>>)
          \* the loop leaves a note once add_note has returned
          /\ (SyncSteps(t) /\ tasks[t].pc = "embedding")
             => \/ tasks'[t].pc = "done" /\ tasks[t].i = Len(store)
                \/ tasks'[t].pc = "fetching" /\ tasks'[t].i = tasks[t].i + 1
          /\ (SyncSteps(t) /\ tasks[t].pc = "embedding" /\ tasks'[t].raised = {})
             => /\ Cardinality(EntriesOf(db'.entries, tasks[t].note_id)) = 1
                /\ \A e \in EntriesOf(db'.entries, tasks[t].note_id) :
                      /\ e.document = tasks[t].text
                      /\ "anytype_id" \in DOMAIN e.metadata
                      /\ e.metadata["anytype_id"] = Str(<<tasks[t].note_id>>)
      ]_vars

\* a run has skipped the short note n2 and stored the note n1 under its id
\* and with its id in the metadata
C24_Witness ==
    /\ tasks["bot"].op = "sync" /\ tasks["bot"].pc = "done"
    /\ tasks["bot"].raised = {}
    /\ Len(store) = 2
    /\ tasks["bot"].stats = [synced |-> 1, skipped |-> 1, errors |-> 0]
    /\ \E e \in EntriesOf(db.entries, "n1") :
          /\ e.document = FullText(Catalogue[1].name, Catalogue[1].body)
          /\ e.metadata["anytype_id"] = Str(<<"n1">>)

Total(stats) == stats.synced + stats.skipped + stats.errors

\* C25: sync_all_notes never raises and always returns its counters: when
\* the listing succeeds, synced + skipped + errors is the number of listed
\* notes; when the listing fails, the result is synced 0, skipped 0,
\* errors 1 and the index is unchanged.
C25_SyncCountsEveryNote ==
    [][\A t \in Tasks :
          SyncSteps(t) =>
             /\ tasks'[t].pc \in {"idle", "fetching", "embedding", "done"}
             /\ (tasks'[t].pc \in {"fetching", "embedding"})
                => Total(tasks'[t].stats) = tasks'[t].i - 1
             /\ (tasks[t].pc # "done" /\ tasks'[t].pc = "done"
                                      /\ "list" \notin tasks'[t].raised)
                => Total(tasks'[t].stats) = Len(store)
             /\ (tasks[t].pc # "done" /\ tasks'[t].pc = "done"
                                      /\ "list" \in tasks'[t].raised)
                => /\ tasks[t].pc = "listing"
                   /\ tasks'[t].stats = [synced |-> 0, skipped |-> 0, errors |-> 1]
                   /\ db' = db /\ collection' = collection
      ]_vars

\* one run has counted both notes it listed, one of them as an error; the
\* run before it ended on a failed listing
C25_Witness ==
    /\ tasks["bot"].op = "sync" /\ tasks["bot"].pc = "done"
    /\ tasks["bot"].raised = {"list"}
    /\ tasks["bot"].stats = [synced |-> 0, skipped |-> 0, errors |-> 1]
    /\ tasks["web"].op = "sync" /\ tasks["web"].pc = "done"
    /\ "list" \notin tasks["web"].raised
    /\ Len(store) = 2 /\ Total(tasks["web"].stats) = 2
    /\ tasks["web"].stats.errors = 1

\* the ids the listing returns
ListedIds == {store[i].id : i \in 1..Len(store)}

\* the entries whose id the listing does not return
Unlisted(entries) ==
    [e \in {x \in BagToSet(entries) : x.id \notin ListedIds} |-> entries[e]]

\* C26: sync_all_notes leaves unchanged every index entry whose id is not
\* among the notes the listing returns; an entry of a note the store no
\* longer lists survives every sync.
C26_SyncKeepsUnlisted ==
    [][\A t \in Tasks :
          SyncSteps(t) =>
             /\ Unlisted(db'.entries) = Unlisted(db.entries)
             /\ tasks[t].pc = "embedding"
                => /\ tasks[t].note_id \in ListedIds
                   /\ OtherEntries(db'.entries, tasks[t].note_id) =
                         OtherEntries(db.entries, tasks[t].note_id)
             /\ tasks[t].pc # "embedding" => db'.entries = db.entries
      ]_vars

\* two runs have stored the one listed note n1; the entry of n2, which the
\* store does not list, is still in the index
C26_Witness ==
    /\ \A t \in Tasks : /\ tasks[t].op = "sync" /\ tasks[t].pc = "done"
                        /\ tasks[t].stats.synced = 1
    /\ ListedIds = {"n1"}
    /\ \E e \in EntriesOf(db.entries, "n1") :
          "anytype_id" \in DOMAIN e.metadata
    /\ \E e \in EntriesOf(db.entries, "n2") :
          e.document = TextB /\ "anytype_id" \notin DOMAIN e.metadata

\* a step of a search of task t, from the call to the return of the list
SearchSteps(t) ==
    /\ tasks'[t] # tasks[t]
    /\ tasks'[t].op = "search" /\ tasks'[t].pc \in {"embedding", "done"}

\* C27: search is read-only: for every query, limit and threshold and on
\* every outcome (results, empty list, failure) the index has the same
\* entries and the same count after the search as before it.
C27_SearchReadOnly ==
    [][\A t \in Tasks :
          SearchSteps(t) =>
             /\ db'.entries = db.entries
             /\ CollectionCount(db'.entries) = CollectionCount(db.entries)
      ]_vars

\* a search has opened the collection of two entries and returned one of
\* them; both entries are in the index
C27_Witness ==
    /\ tasks["bot"].op = "search" /\ tasks["bot"].pc = "done"
    /\ tasks["bot"].queried /\ Len(tasks["bot"].notes) = 1
    /\ Len(tasks["bot"].results) = 2
    /\ collection /\ CollectionCount(db.entries) = 2

\* the endpoints of the extension that take a token
TokenEndpoints == {"get_config", "log_event", "summarize_chunk", "save_transcript"}

\* C29: every extension endpoint that takes a token (config, event,
\* summarize-chunk, save) answers a request whose token is not a key of
\* extension_tokens with an error and without side effect: no summarizer
\* call, no note created in the store, no index change, no message to any
\* user and no configuration secrets in the answer.
C29_UnknownTokenRefused ==
    [][\A t \in Tasks :
          ( /\ tasks'[t] # tasks[t]
            /\ tasks'[t].op \in TokenEndpoints
            /\ tasks'[t].request.token \notin DOMAIN ExtensionTokens )
          => /\ tasks'[t].pc = "done"
             /\ tasks'[t].response.status >= 400
             /\ tasks'[t].response.config = NoConfig
             /\ tasks'[t].response.summary = <<>>
             /\ tasks'[t].response.objectId = ""
             /\ tasks'[t].llm = <<>>
             /\ tasks'[t].sent = <<>>
             /\ tasks'[t].created = ""
             /\ store' = store
             /\ db' = db /\ collection' = collection /\ embedder' = embedder
      ]_vars

\* the save endpoint has refused a request that carries an unknown token, a
\* transcript of the minimum length and chunk summaries
C29_Witness ==
    /\ tasks["web"].op = "save_transcript" /\ tasks["web"].pc = "done"
    /\ tasks["web"].request.token \notin DOMAIN ExtensionTokens
    /\ Len(tasks["web"].request.text) = MinTranscriptLen
    /\ Len(tasks["web"].request.chunks) = 1
    /\ tasks["web"].response.status = 401
    /\ Len(store) = MaxListed /\ CollectionCount(db.entries) = 0

\* C30: a save request with a valid token and a transcript shorter than 10
\* characters is rejected before any summarization: neither summarize nor
\* combine_summaries is called, no note is created in the store and the
\* index is unchanged, also when chunk summaries are supplied.
C30_ShortTranscriptRejected ==
    [][\A t \in Tasks :
          ( /\ tasks'[t] # tasks[t]
            /\ tasks'[t].op = "save_transcript"
            /\ tasks'[t].request.token \in DOMAIN ExtensionTokens
            /\ ExtensionTokens[tasks'[t].request.token] # 0
            /\ Len(tasks'[t].request.text) < MinTranscriptLen )
          => /\ tasks'[t].pc \in {"warning", "done"}
             /\ tasks'[t].pc = "done" => tasks'[t].response.status \in {400, 500}
             /\ tasks'[t].llm = <<>>
             /\ tasks'[t].created = ""
             /\ store' = store
             /\ db' = db /\ collection' = collection /\ embedder' = embedder
      ]_vars

\* the save endpoint has answered 400 to a request with a known token, a
\* transcript one character short and a chunk summary
C30_Witness ==
    /\ tasks["web"].op = "save_transcript" /\ tasks["web"].pc = "done"
    /\ tasks["web"].request.token \in DOMAIN ExtensionTokens
    /\ Len(tasks["web"].request.text) = MinTranscriptLen - 1
    /\ Len(tasks["web"].request.chunks) = 1
    /\ tasks["web"].response.status = 400
    /\ tasks["web"].llm = <<>>
    /\ Len(store) = MaxListed /\ CollectionCount(db.entries) = 0

\* the flows that create a note: the save endpoint and the voice handler
CreateOps == {"save_transcript", "voice_note"}

\* a step of the flow of task t that creates a note
CreateSteps(t) == tasks[t].op \in CreateOps /\ tasks'[t] # tasks[t]

\* C28: a note the bot creates (voice message or meeting save) is indexed
\* only after the external store has created it, under the id the store
\* returned; a later sync_all_notes that lists the note upserts under the
\* same id, so that the index holds one entry of the note and not two; and
\* a failure of the indexing step never fails the flow that creates the
\* note.
C28_CreatedNoteIndexedOnce ==
    [][\A t \in Tasks :
          \* add_note is called once the store has returned the id
          /\ (CreateSteps(t) /\ tasks'[t].pc = "embedding")
             => /\ Len(store') = Len(store) + 1
                /\ tasks'[t].created = store'[Len(store')].id
                /\ tasks'[t].created # ""
                /\ tasks'[t].note_id = tasks'[t].created
          \* the flow writes the index in that call alone and under that id
          /\ (CreateSteps(t) /\ db'.entries # db.entries)
             => /\ tasks[t].pc = "embedding"
                /\ \E i \in 1..Len(store) : store[i].id = tasks[t].created
                /\ OtherEntries(db'.entries, tasks[t].created) =
                      OtherEntries(db.entries, tasks[t].created)
                /\ \A e \in EntriesOf(db'.entries, tasks[t].created) :
                      e.document = tasks[t].text
          \* whatever add_note returns, the flow goes on and answers
          /\ (CreateSteps(t) /\ tasks[t].pc = "embedding")
             => tasks'[t].pc = "notifying" /\ tasks'[t].created = tasks[t].created
          /\ ( /\ CreateSteps(t) /\ tasks[t].pc = "notifying"
               /\ "send" \notin tasks'[t].raised )
             => /\ tasks'[t].pc = "done"
                /\ tasks'[t].sent # <<>>
                /\ tasks'[t].sent[Len(tasks'[t].sent)].kind \in {"saved", "voice_saved"}
                /\ tasks[t].op = "save_transcript"
                   => /\ tasks'[t].response.status = 200
                      /\ tasks'[t].response.objectId = tasks[t].created
          \* the sync after it upserts under the id of the created note
          /\ \A u \in Tasks \ {t} :
                ( /\ SyncSteps(t) /\ tasks[t].pc = "embedding"
                  /\ tasks[u].created # "" /\ tasks[t].note_id = tasks[u].created )
                => /\ Cardinality(EntriesOf(db'.entries, tasks[u].created)) <= 1
                   /\ \A e \in EntriesOf(db'.entries, tasks[u].created) :
                         db'.entries[e] = 1
                   /\ OtherEntries(db'.entries, tasks[u].created) =
                         OtherEntries(db.entries, tasks[u].created)
                   /\ tasks'[t].raised = {}
                      => /\ Cardinality(EntriesOf(db'.entries, tasks[u].created)) = 1
                         /\ \A e \in EntriesOf(db'.entries, tasks[u].created) :
                               e.document = ListedText(t)
      ]_vars

\* the save endpoint has created the note m3 and answered 200 although the
\* index write failed; the sync after it has stored the notes n1 and m3,
\* and the index holds one entry of m3
C28_Witness ==
    /\ tasks["web"].op = "save_transcript" /\ tasks["web"].pc = "done"
    /\ tasks["web"].response.status = 200
    /\ tasks["web"].created = store[Len(store)].id
    /\ ~tasks["web"].ok /\ "add" \in tasks["web"].raised
    /\ tasks["bot"].op = "sync" /\ tasks["bot"].pc = "done"
    /\ tasks["bot"].raised = {} /\ tasks["bot"].stats.synced = 2
    /\ Cardinality(EntriesOf(db.entries, tasks["web"].created)) = 1
    /\ CollectionCount(db.entries) = 2

\* the voice handler has created and indexed a note; the sync after it has
\* replaced the text of the entry by the text of the store
C28_VoiceWitness ==
    /\ tasks["bot"].op = "voice_note" /\ tasks["bot"].pc = "done"
    /\ tasks["bot"].ok /\ tasks["bot"].raised = {}
    /\ tasks["web"].op = "sync" /\ tasks["web"].pc = "done"
    /\ tasks["web"].raised = {}
    /\ \E e \in EntriesOf(db.entries, tasks["bot"].created) :
          e.document # tasks["bot"].text
    /\ CollectionCount(db.entries) = 2

====
